---- MODULE Spec2Model ----
(***************************************************************************)
(* A model of stoml-args: the command-line tokenizer (src/src/parser.rs)   *)
(* and the layered merge of CLI values, a TOML configuration tree and     *)
(* static defaults (src/src/lib.rs).                                       *)
(*                                                                         *)
(* Text is modelled as a sequence of one-character strings, so that       *)
(* prefix stripping, splitting on '=' and on '.', and number parsing are   *)
(* computed character by character as the code computes them.             *)
(***************************************************************************)
EXTENDS Integers, Sequences, FiniteSets, TLC

(***************************************************************************)
(* Option<T>                                                               *)
(***************************************************************************)
None == [some |-> FALSE]

Some(x) == [some |-> TRUE, v |-> x]

(***************************************************************************)
(* Text helpers                                                            *)
(***************************************************************************)
\* str::strip_prefix / str::starts_with
StartsWith(s, p) == Len(s) >= Len(p) /\ SubSeq(s, 1, Len(p)) = p

\* the text after the first n characters
Drop(s, n) == SubSeq(s, n + 1, Len(s))

\* str::find(c): the index (1-based) of the first c in s, 0 when there is none
Find(s, c) ==
  IF \E i \in 1..Len(s) : s[i] = c
  THEN CHOOSE i \in 1..Len(s) : s[i] = c /\ \A j \in 1..(i - 1) : s[j] # c
  ELSE 0

UpperChars == <<"A","B","C","D","E","F","G","H","I","J","K","L","M",
                "N","O","P","Q","R","S","T","U","V","W","X","Y","Z">>

LowerChars == <<"a","b","c","d","e","f","g","h","i","j","k","l","m",
                "n","o","p","q","r","s","t","u","v","w","x","y","z">>

\* char lowercasing, as str::to_lowercase does on ASCII text
LowerChar(c) ==
  IF \E i \in 1..Len(UpperChars) : UpperChars[i] = c
  THEN LowerChars[CHOOSE i \in 1..Len(UpperChars) : UpperChars[i] = c]
  ELSE c

to_lowercase(s) == [i \in 1..Len(s) |-> LowerChar(s[i])]

(***************************************************************************)
(* stoml::Value.  An Integer is a sign and its canonical decimal digits    *)
(* (no leading zero, zero is <<0>> and not negative), so that the 64-bit   *)
(* range is decided exactly.  A Table is the sequence of its entries in    *)
(* the order its iterator yields them.                                     *)
(***************************************************************************)
VString(s) == [t |-> "String", s |-> s]

VInteger(neg, d) == [t |-> "Integer", neg |-> neg, d |-> d]

VFloat(neg, m, e) == [t |-> "Float", neg |-> neg, m |-> m, e |-> e]

VBoolean(b) == [t |-> "Boolean", b |-> b]

VArray(a) == [t |-> "Array", a |-> a]

VTable(e) == [t |-> "Table", e |-> e]

Entry(k, v) == [k |-> k, v |-> v]

DigitChars == <<"0","1","2","3","4","5","6","7","8","9">>

IsDigit(c) == \E i \in 1..10 : DigitChars[i] = c

DigitVal(c) == (CHOOSE i \in 1..10 : DigitChars[i] = c) - 1

\* digits without their leading zeros; <<0>> for zero
RECURSIVE Canon(_)
Canon(d) ==
  IF Len(d) <= 1 THEN d
  ELSE IF d[1] = 0 THEN Canon(Tail(d)) ELSE d

\* the decimal digits of a small natural number
RECURSIVE NatDigits(_)
NatDigits(n) ==
  IF n < 10 THEN <<n>> ELSE Append(NatDigits(n \div 10), n % 10)

\* Value::Integer(n) for a small natural number n
IntV(n) == VInteger(FALSE, NatDigits(n))

\* a <= b for canonical digit sequences
RECURSIVE DigitsLeqSameLen(_, _)
DigitsLeqSameLen(a, b) ==
  IF Len(a) = 0 THEN TRUE
  ELSE IF a[1] # b[1] THEN a[1] < b[1]
  ELSE DigitsLeqSameLen(Tail(a), Tail(b))

DigitsLeq(a, b) ==
  IF Len(a) # Len(b) THEN Len(a) < Len(b) ELSE DigitsLeqSameLen(a, b)

\* i64::MAX = 9223372036854775807 and the magnitude of i64::MIN
I64MaxDigits == <<9,2,2,3,3,7,2,0,3,6,8,5,4,7,7,5,8,0,7>>

I64MinDigits == <<9,2,2,3,3,7,2,0,3,6,8,5,4,7,7,5,8,0,8>>

\* digits + 1
RECURSIVE DigitsSucc(_)
DigitsSucc(d) ==
  IF Len(d) = 0 THEN <<1>>
  ELSE IF d[Len(d)] < 9 THEN [d EXCEPT ![Len(d)] = d[Len(d)] + 1]
  ELSE Append(DigitsSucc(SubSeq(d, 1, Len(d) - 1)), 0)

\* digits - 1, for digits > 0
RECURSIVE DigitsPred(_)
DigitsPred(d) ==
  IF d[Len(d)] > 0 THEN Canon([d EXCEPT ![Len(d)] = d[Len(d)] - 1])
  ELSE Canon(Append(DigitsPred(SubSeq(d, 1, Len(d) - 1)), 9))

\* current + 1 on an i64 (the overflow of i64::MAX + 1 wraps to i64::MIN in a
\* release build)
I64Succ(v) ==
  IF v.neg
  THEN (IF v.d = <<1>> THEN VInteger(FALSE, <<0>>)
        ELSE VInteger(TRUE, DigitsPred(v.d)))
  ELSE IF v.d = I64MaxDigits THEN VInteger(TRUE, I64MinDigits)
  ELSE VInteger(FALSE, DigitsSucc(v.d))

\* the value of a small non-negative Integer as a number
RECURSIVE DigitsNat(_)
DigitsNat(d) ==
  IF Len(d) = 0 THEN 0 ELSE 10 * DigitsNat(SubSeq(d, 1, Len(d) - 1)) + d[Len(d)]

\* a variant of InI64Range that takes any magnitude
InI64Range_unchecked(neg, d) == Some(VInteger(neg /\ d # <<0>>, d))

\* str::parse::<i64>: an optional sign, then one or more ASCII digits, within
\* the 64-bit signed range
InI64Range(neg, d) ==
  IF neg
  THEN (IF DigitsLeq(d, I64MinDigits) THEN Some(VInteger(d # <<0>>, d)) ELSE None)
  ELSE (IF DigitsLeq(d, I64MaxDigits) THEN Some(VInteger(FALSE, d)) ELSE None)

ParseDigits(neg, body) ==
  IF Len(body) = 0 \/ \E i \in 1..Len(body) : ~IsDigit(body[i])
  THEN None
  ELSE InI64Range(neg, Canon([i \in 1..Len(body) |-> DigitVal(body[i])]))

ParseI64(s) ==
  IF Len(s) > 0 /\ s[1] \in {"+", "-"}
  THEN ParseDigits(s[1] = "-", Tail(s))
  ELSE ParseDigits(FALSE, s)

\* str::parse::<f64>, on plain decimal text: an optional sign, digits and at
\* most one '.', with at least one digit.  The value is the sign, the canonical
\* digits of the mantissa and the number of fraction digits kept.  (Exponent
\* forms, "inf" and "nan" are not in the model's alphabet of numbers.)
RECURSIVE TrimFrac(_, _)
TrimFrac(m, e) ==
  IF e > 0 /\ m[Len(m)] = 0 THEN TrimFrac(SubSeq(m, 1, Len(m) - 1), e - 1)
  ELSE <<m, e>>

FloatOf(neg, tf) == Some(VFloat(neg, Canon(tf[1]), tf[2]))

ParseDecimal(neg, ds, nfrac) ==
  IF Len(ds) = 0 \/ \E i \in 1..Len(ds) : ~IsDigit(ds[i])
  THEN None
  ELSE FloatOf(neg, TrimFrac([i \in 1..Len(ds) |-> DigitVal(ds[i])], nfrac))

SplitAtDot(neg, body, dot) ==
  IF dot = 0 THEN ParseDecimal(neg, body, 0)
  ELSE ParseDecimal(neg, SubSeq(body, 1, dot - 1) \o Drop(body, dot), Len(body) - dot)

ParseUnsignedF64(neg, body) == SplitAtDot(neg, body, Find(body, "."))

ParseF64(s) ==
  IF Len(s) > 0 /\ s[1] \in {"+", "-"}
  THEN ParseUnsignedF64(s[1] = "-", Tail(s))
  ELSE ParseUnsignedF64(FALSE, s)

\* a variant of BoolText that compares the text as it is
BoolText_exact(s) ==
  s = <<"t","r","u","e">> \/ s = <<"1">> \/ s = <<"y","e","s">>

\* lower == "true" || lower == "1" || lower == "yes"
BoolText(s) ==
  LET lower == to_lowercase(s)
  IN  lower = <<"t","r","u","e">> \/ lower = <<"1">> \/ lower = <<"y","e","s">>

(***************************************************************************)
(* Result<T, Error> and the errors of src/src/error.rs                     *)
(***************************************************************************)
Ok(x) == [ok |-> TRUE, v |-> x]

Err(e) == [ok |-> FALSE, e |-> e]

MissingRequired(name) == [kind |-> "MissingRequired", name |-> name]

UnknownFlag(flag) == [kind |-> "UnknownFlag", flag |-> flag]

MissingValue(name) == [kind |-> "MissingValue", name |-> name]

InvalidValue(value, expected) ==
  [kind |-> "InvalidValue", name |-> <<>>, value |-> value, expected |-> expected]

DuplicateValue(name) == [kind |-> "DuplicateValue", name |-> name]

MissingPositional(name, position) ==
  [kind |-> "MissingPositional", name |-> name, position |-> position]

TooManyPositional(max, got) == [kind |-> "TooManyPositional", max |-> max, got |-> got]

HelpRequested == [kind |-> "Help"]

VersionRequested == [kind |-> "Version"]

\* stoml::parse_file failing on a file that is not there
IoError(path) == [kind |-> "Io", path |-> path]

\* stoml::parse_file failing on a file that is not TOML
TomlError(path) == [kind |-> "Toml", path |-> path]

\* Error::is_info_request
is_info_request(e) == e.kind \in {"Help", "Version"}

(***************************************************************************)
(* Arg and its builder methods                                             *)
(***************************************************************************)
ArgTypes == {"String", "Integer", "Float", "Bool", "Array", "Count"}

Arg_new(name) ==
  [name |-> name, short |-> None, long |-> None, arg_type |-> "String",
   default |-> None, required |-> FALSE, toml_key |-> None,
   positional |-> FALSE, position |-> None, variadic |-> FALSE]

Arg_positional(name) == [Arg_new(name) EXCEPT !.positional = TRUE]

Arg_short(a, c) == [a EXCEPT !.short = Some(c)]

Arg_long(a, s) == [a EXCEPT !.long = Some(s)]

Arg_arg_type(a, t) == [a EXCEPT !.arg_type = t]

Arg_flag(a) == [a EXCEPT !.arg_type = "Bool", !.default = Some(VBoolean(FALSE))]

Arg_count(a) == [a EXCEPT !.arg_type = "Count", !.default = Some(IntV(0))]

Arg_default(a, v) == [a EXCEPT !.default = Some(v)]

Arg_required(a) == [a EXCEPT !.required = TRUE]

Arg_toml_key(a, s) == [a EXCEPT !.toml_key = Some(s)]

Arg_variadic(a) == [a EXCEPT !.variadic = TRUE, !.arg_type = "Array"]

(***************************************************************************)
(* Args: the builder and the flags parse_from adds                         *)
(***************************************************************************)
Args_new ==
  [version |-> None, args |-> <<>>, positional_count |-> 0, auto_help |-> TRUE,
   auto_version |-> TRUE, auto_config |-> FALSE, default_config |-> None]

Args_version(self, v) == [self EXCEPT !.version = Some(v)]

Args_arg(self, a) ==
  IF a.positional
  THEN [self EXCEPT !.args = Append(@, [a EXCEPT !.position = Some(self.positional_count)]),
                    !.positional_count = @ + 1]
  ELSE [self EXCEPT !.args = Append(@, a)]

\* args.iter().fold(parser, |p, a| p.arg(a))
RECURSIVE Args_fold(_, _)
Args_fold(self, as) ==
  IF Len(as) = 0 THEN self ELSE Args_fold(Args_arg(self, Head(as)), Tail(as))

Args_disable_help(self) == [self EXCEPT !.auto_help = FALSE]

Args_config_arg(self) == [self EXCEPT !.auto_config = TRUE]

Args_config_arg_default(self, path) ==
  [self EXCEPT !.auto_config = TRUE, !.default_config = Some(path)]

ConfigArg ==
  Arg_long(Arg_short(Arg_new(<<"c","o","n","f","i","g">>), "c"), <<"c","o","n","f","i","g">>)

HelpArg == Arg_flag(Arg_long(Arg_short(Arg_new(<<"h","e","l","p">>), "h"), <<"h","e","l","p">>))

VersionArg ==
  Arg_flag(Arg_long(Arg_short(Arg_new(<<"v","e","r","s","i","o","n">>), "V"),
                    <<"v","e","r","s","i","o","n">>))

\* the argument list parse_from hands to the tokenizer: the declared arguments
\* and then the automatic config, help and version flags
WithAutoFlags(self) ==
  self.args
    \o (IF self.auto_config THEN <<ConfigArg>> ELSE <<>>)
    \o (IF self.auto_help THEN <<HelpArg>> ELSE <<>>)
    \o (IF self.auto_version /\ self.version.some THEN <<VersionArg>> ELSE <<>>)

(***************************************************************************)
(* ArgParser::new: the lookup indices.  An index is 0 when the alias is    *)
(* unknown; a HashMap insert replaces, so of two arguments with the same   *)
(* alias the later one is found.                                           *)
(***************************************************************************)
short_map(args, c) ==
  LET hits == {i \in 1..Len(args) : ~args[i].positional /\ args[i].short = Some(c)}
  IN  IF hits = {} THEN 0 ELSE CHOOSE i \in hits : \A j \in hits : j <= i

long_map(args, l) ==
  LET hits == {i \in 1..Len(args) : ~args[i].positional /\ args[i].long = Some(l)}
  IN  IF hits = {} THEN 0 ELSE CHOOSE i \in hits : \A j \in hits : j <= i

\* the key positionals are sorted by: Option<usize>, None first
PositionKey(a) == IF a.position.some THEN a.position.v ELSE -1

\* the positional arguments' indices, stably sorted by position
RECURSIVE SortByPosition(_, _)
SortByPosition(args, todo) ==
  IF todo = {} THEN <<>>
  ELSE LET first == CHOOSE i \in todo : \A j \in todo :
                       \/ PositionKey(args[i]) < PositionKey(args[j])
                       \/ PositionKey(args[i]) = PositionKey(args[j]) /\ i <= j
       IN  <<first>> \o SortByPosition(args, todo \ {first})

positionals(args) == SortByPosition(args, {i \in 1..Len(args) : args[i].positional})

(***************************************************************************)
(* HashMap<String, Value> as a function from keys to values                *)
(***************************************************************************)
EmptyMap == [k \in {} |-> None]

contains_key(m, k) == k \in DOMAIN m

\* HashMap::insert: sets or replaces
Insert(m, k, v) == [x \in DOMAIN m \cup {k} |-> IF x = k THEN v ELSE m[x]]

\* a variant of OrInsert that replaces the value of a key already present
OrInsert_replacing(m, k, v) == Insert(m, k, v)

\* entry(k).or_insert_with(|| v): sets only when absent
OrInsert(m, k, v) == IF k \in DOMAIN m THEN m ELSE Insert(m, k, v)

\* values.get(name).and_then(|v| v.as_integer())
get_integer(m, k) ==
  IF k \in DOMAIN m /\ m[k].t = "Integer" THEN Some(m[k]) ELSE None

\* values.get(name).and_then(|v| v.as_bool()).unwrap_or(false)
get_bool(m, k) == k \in DOMAIN m /\ m[k].t = "Boolean" /\ m[k].b

\* values.get(name).and_then(|v| v.as_integer()).unwrap_or(0)
get_count(m, k) == IF get_integer(m, k).some THEN m[k] ELSE IntV(0)

(***************************************************************************)
(* The tokenizer, src/src/parser.rs.  A Matches under construction is the   *)
(* record m = [values, remaining, log]; log is a history of the dispatches *)
(* the tokenizer made, which the code does not keep: one entry per flag     *)
(* occurrence or positional, with the token and character it came from and *)
(* the raw text it was given.                                              *)
(***************************************************************************)
Matches_new == [values |-> EmptyMap, remaining |-> <<>>, log |-> <<>>]

Event(form, tok, at, arg, val) ==
  [form |-> form, tok |-> tok, at |-> at, arg |-> arg, val |-> val]

Logged(m, ev) == [m EXCEPT !.log = Append(@, ev)]

\* .map(Value::..).map_err(|_| Error::InvalidValue { .. })
OrInvalid(parsed, value, expected) ==
  IF parsed.some THEN Ok(parsed.v) ELSE Err(InvalidValue(value, expected))

ParseAsInteger(value) == OrInvalid(ParseI64(value), value, "an integer")

ParseAsFloat(value) == OrInvalid(ParseF64(value), value, "a number")

parse_value_as_type(value, arg_type) ==
  CASE arg_type = "String"  -> Ok(VString(value))
    [] arg_type = "Integer" -> ParseAsInteger(value)
    [] arg_type = "Float"   -> ParseAsFloat(value)
    [] arg_type = "Bool"    -> Ok(VBoolean(BoolText(value)))
    [] arg_type = "Count"   -> ParseAsInteger(value)
    [] arg_type = "Array"   -> Ok(VString(value))

\* a variant of PushIfArray that puts the new element in front
PushIfArray_in_front(with, name, elem) ==
  IF with[name].t = "Array"
  THEN Insert(with, name, VArray(<<elem>> \o with[name].a))
  ELSE with

\* entry(name).or_insert_with(|| Array::new()), then push when it is an array
PushIfArray(with, name, elem) ==
  IF with[name].t = "Array"
  THEN Insert(with, name, VArray(Append(with[name].a, elem)))
  ELSE with

\* a variant of PushToArray that starts from an empty array each time
PushToArray_fresh(values, name, elem) ==
  PushIfArray(Insert(values, name, VArray(<<>>)), name, elem)

PushToArray(values, name, elem) ==
  PushIfArray(OrInsert(values, name, VArray(<<>>)), name, elem)

\* a.push(self.parse_value_as_type(&value, ArgType::String)?)
PushParsed(parsed, name, m) ==
  IF parsed.ok THEN Ok([m EXCEPT !.values = PushToArray(@, name, parsed.v)]) ELSE parsed

\* matches.values.insert(name, self.parse_value_as_type(value, arg_type)?)
InsertParsed(parsed, name, m) ==
  IF parsed.ok THEN Ok([m EXCEPT !.values = Insert(@, name, parsed.v)]) ELSE parsed

\* a variant of set_value that does not look for an earlier value
set_value_unchecked(args, idx, value, m) ==
  IF args[idx].arg_type = "Array"
  THEN PushParsed(parse_value_as_type(value, "String"), args[idx].name, m)
  ELSE InsertParsed(parse_value_as_type(value, args[idx].arg_type), args[idx].name, m)

set_value(args, idx, value, m) ==
  IF args[idx].arg_type = "Array"
  THEN PushParsed(parse_value_as_type(value, "String"), args[idx].name, m)
  ELSE IF contains_key(m.values, args[idx].name) /\ args[idx].arg_type # "Count"
  THEN Err(DuplicateValue(args[idx].name))
  ELSE InsertParsed(parse_value_as_type(value, args[idx].arg_type), args[idx].name, m)

\* a variant of count_occurrence that records only that the flag occurred
count_occurrence_once(arg_def, m) ==
  [m EXCEPT !.values = Insert(@, arg_def.name, IntV(1))]

\* the Count arm of handle_flag and of the short cluster
count_occurrence(arg_def, m) ==
  [m EXCEPT !.values = Insert(@, arg_def.name, I64Succ(get_count(@, arg_def.name)))]

\* the Result of set_value with the iterator position: Ok([m, it]) or the error
WithIter(r, it) == IF r.ok THEN Ok([m |-> r.v, it |-> it]) ELSE r

\* a variant of bool_flag in which a second occurrence takes the flag back
bool_flag_toggling(arg_def, inline_value, m) ==
  [m EXCEPT !.values = Insert(@, arg_def.name,
     VBoolean(~contains_key(m.values, arg_def.name)))]

\* the Bool arm of handle_flag: --flag=value parses the value, --flag is true
bool_flag(arg_def, inline_value, m) ==
  [m EXCEPT !.values = Insert(@, arg_def.name,
     VBoolean(IF inline_value.some THEN BoolText(inline_value.v) ELSE TRUE))]

\* a variant of handle_flag that reads the next token as the value and leaves
\* it in the iterator
handle_flag_peeking(args, idx, inline_value, tokens, it, m) ==
  CASE args[idx].arg_type = "Bool" ->
         Ok([m |-> bool_flag(args[idx], inline_value, m), it |-> it])
    [] args[idx].arg_type = "Count" ->
         Ok([m |-> count_occurrence(args[idx], m), it |-> it])
    [] OTHER ->
         IF inline_value.some
         THEN WithIter(set_value(args, idx, inline_value.v, m), it)
         ELSE IF it >= Len(tokens)
         THEN Err(MissingValue(args[idx].name))
         ELSE WithIter(set_value(args, idx, tokens[it + 1], m), it)

\* handle_flag: `it` is the number of tokens the iterator has yielded; the
\* result is the new Matches and iterator position
handle_flag(args, idx, inline_value, tokens, it, m) ==
  CASE args[idx].arg_type = "Bool" ->
         Ok([m |-> bool_flag(args[idx], inline_value, m), it |-> it])
    [] args[idx].arg_type = "Count" ->
         Ok([m |-> count_occurrence(args[idx], m), it |-> it])
    [] OTHER ->
         IF inline_value.some
         THEN WithIter(set_value(args, idx, inline_value.v, m), it)
         ELSE IF it >= Len(tokens)
         THEN Err(MissingValue(args[idx].name))
         ELSE WithIter(set_value(args, idx, tokens[it + 1], m), it + 1)

\* handle_positional with self.positionals as ps
positional_at(args, ps, value, index, m) ==
  IF index < Len(ps)
  THEN (IF args[ps[index + 1]].variadic
        THEN PushParsed(parse_value_as_type(value, "String"), args[ps[index + 1]].name, m)
        ELSE InsertParsed(parse_value_as_type(value, args[ps[index + 1]].arg_type),
                          args[ps[index + 1]].name, m))
  ELSE IF Len(ps) > 0 /\ args[ps[Len(ps)]].variadic
  THEN PushParsed(parse_value_as_type(value, "String"), args[ps[Len(ps)]].name, m)
  ELSE Err(TooManyPositional(Len(ps), index + 1))

handle_positional(args, value, index, m) ==
  positional_at(args, positionals(args), value, index, m)

\* set_value from a short cluster, with its entry in the history
short_set(args, idx, value, tok, i, it, m) ==
  WithIter(set_value(args, idx, value, Logged(m, Event("short", tok, i, idx, Some(value)))), it)

\* a variant of short_value that always takes the next token as the value
short_value_next_token(args, idx, chars, i, tok, tokens, it, m) ==
  IF it >= Len(tokens)
  THEN Err(MissingValue(args[idx].name))
  ELSE short_set(args, idx, tokens[it + 1], tok, i, it + 1, m)

\* the value-taking arm of the short cluster: chars is the token without its
\* '-', i the position (from 1) of the flag's character in it
short_value(args, idx, chars, i, tok, tokens, it, m) ==
  IF i < Len(chars)
  THEN short_set(args, idx, Drop(chars, i), tok, i, it, m)
  ELSE IF it >= Len(tokens)
  THEN Err(MissingValue(args[idx].name))
  ELSE short_set(args, idx, tokens[it + 1], tok, i, it + 1, m)

\* a variant of short_bool that keeps the value the flag already has
short_bool_keeping(arg_def, m) ==
  [m EXCEPT !.values = OrInsert(@, arg_def.name, VBoolean(TRUE))]

\* the Bool arm of the short cluster
short_bool(arg_def, m) == [m EXCEPT !.values = Insert(@, arg_def.name, VBoolean(TRUE))]

\* the `while i < chars.len()` loop over a short cluster; scan_char is its body
\* for the character at i, which short_map maps to idx
RECURSIVE scan_cluster(_, _, _, _, _, _, _)
scan_char(args, chars, i, idx, tok, tokens, it, m) ==
  IF idx = 0 THEN Err(UnknownFlag(<<"-", chars[i]>>))
  ELSE CASE args[idx].arg_type = "Bool" ->
              scan_cluster(args, chars, i + 1, tok, tokens, it,
                short_bool(args[idx], Logged(m, Event("short", tok, i, idx, None))))
         [] args[idx].arg_type = "Count" ->
              scan_cluster(args, chars, i + 1, tok, tokens, it,
                count_occurrence(args[idx], Logged(m, Event("short", tok, i, idx, None))))
         [] OTHER -> short_value(args, idx, chars, i, tok, tokens, it, m)

scan_cluster(args, chars, i, tok, tokens, it, m) ==
  IF i > Len(chars) THEN Ok([m |-> m, it |-> it])
  ELSE scan_char(args, chars, i, short_map(args, chars[i]), tok, tokens, it, m)

\* the raw text a long flag is given, for the history
LongValue(arg_def, inline, tokens, it) ==
  IF arg_def.arg_type \in {"Bool", "Count"} \/ inline.some THEN inline
  ELSE IF it < Len(tokens) THEN Some(tokens[it + 1]) ELSE None

\* a variant of long_lookup that skips a long flag it does not know
long_lookup_skipping(args, flag_name, idx, inline, tok, tokens, it, m) ==
  IF idx = 0 THEN Ok([m |-> m, it |-> it])
  ELSE handle_flag(args, idx, inline, tokens, it,
         Logged(m, Event("long", tok, 0, idx, LongValue(args[idx], inline, tokens, it))))

\* the lookup of a long flag's name, after the --flag=value split
long_lookup(args, flag_name, idx, inline, tok, tokens, it, m) ==
  IF idx = 0 THEN Err(UnknownFlag(<<"-","-">> \o flag_name))
  ELSE handle_flag(args, idx, inline, tokens, it,
         Logged(m, Event("long", tok, 0, idx, LongValue(args[idx], inline, tokens, it))))

\* a variant of long_split that drops the inline value
long_split_no_inline(args, rest, eq, tok, tokens, it, m) ==
  IF eq > 0
  THEN long_lookup(args, SubSeq(rest, 1, eq - 1), long_map(args, SubSeq(rest, 1, eq - 1)),
                   None, tok, tokens, it, m)
  ELSE long_lookup(args, rest, long_map(args, rest), None, tok, tokens, it, m)

\* rest.find('=') splits the name from the inline value
long_split(args, rest, eq, tok, tokens, it, m) ==
  IF eq > 0
  THEN long_lookup(args, SubSeq(rest, 1, eq - 1), long_map(args, SubSeq(rest, 1, eq - 1)),
                   Some(Drop(rest, eq)), tok, tokens, it, m)
  ELSE long_lookup(args, rest, long_map(args, rest), None, tok, tokens, it, m)

\* a variant of long_negation in which a flag literally named no-X is looked
\* up before the negation of X
long_negation_after_lookup(args, rest, neg_idx, tok, tokens, it, m) ==
  IF long_map(args, rest) = 0 /\ neg_idx # 0 /\ args[neg_idx].arg_type = "Bool"
  THEN Ok([m  |-> [Logged(m, Event("neg", tok, 0, neg_idx, None))
                     EXCEPT !.values = Insert(@, args[neg_idx].name, VBoolean(FALSE))],
           it |-> it])
  ELSE long_split(args, rest, Find(rest, "="), tok, tokens, it, m)

\* the --no-flag check: neg_idx is what long_map holds for the text after "no-"
long_negation(args, rest, neg_idx, tok, tokens, it, m) ==
  IF neg_idx # 0 /\ args[neg_idx].arg_type = "Bool"
  THEN Ok([m  |-> [Logged(m, Event("neg", tok, 0, neg_idx, None))
                     EXCEPT !.values = Insert(@, args[neg_idx].name, VBoolean(FALSE))],
           it |-> it])
  ELSE long_split(args, rest, Find(rest, "="), tok, tokens, it, m)

\* the long-flag arm: rest is the token without its "--"
long_flag(args, rest, tok, tokens, it, m) ==
  long_negation(args, rest,
    IF StartsWith(rest, <<"n","o","-">>) THEN long_map(args, Drop(rest, 3)) ELSE 0,
    tok, tokens, it, m)

\* a flag token's result carried into the loop state
FlagDone(r, st) == IF r.ok THEN Ok([st EXCEPT !.it = r.v.it, !.m = r.v.m]) ELSE r

\* a variant of PositionalDone that leaves the positional index where it is
PositionalDone_same_slot(r, st) ==
  IF r.ok
  THEN Ok([st EXCEPT !.it = @ + 1, !.m = r.v])
  ELSE r

\* a positional token's result carried into the loop state
PositionalDone(r, st) ==
  IF r.ok
  THEN Ok([st EXCEPT !.it = @ + 1, !.m = r.v, !.positional_index = @ + 1])
  ELSE r

\* a variant of pass_through in which a second `--` ends the pass-through
pass_through_until_dashes(tokens, st) ==
  IF tokens[st.it + 1] = <<"-","-">>
  THEN Ok([st EXCEPT !.it = @ + 1, !.seen_double_dash = FALSE])
  ELSE Ok([st EXCEPT !.it = @ + 1, !.m.remaining = Append(@, tokens[st.it + 1])])

\* `if seen_double_dash { matches.remaining.push(arg); continue; }`
pass_through(tokens, st) ==
  Ok([st EXCEPT !.it = @ + 1, !.m.remaining = Append(@, tokens[st.it + 1])])

\* One iteration of `while let Some(arg) = args_iter.next()`.  The state is
\* st = [m, it, positional_index, seen_double_dash]; the token is tokens[st.it + 1].
parse_token(args, tokens, st) ==
  IF st.seen_double_dash
  THEN pass_through(tokens, st)
  ELSE IF tokens[st.it + 1] = <<"-","-">>
  THEN Ok([st EXCEPT !.it = @ + 1, !.seen_double_dash = TRUE])
  ELSE IF StartsWith(tokens[st.it + 1], <<"-","-">>)
  THEN FlagDone(long_flag(args, Drop(tokens[st.it + 1], 2), st.it + 1, tokens,
                          st.it + 1, st.m), st)
  ELSE IF StartsWith(tokens[st.it + 1], <<"-">>) /\ Len(tokens[st.it + 1]) > 1
  THEN FlagDone(scan_cluster(args, Drop(tokens[st.it + 1], 1), 1, st.it + 1, tokens,
                             st.it + 1, st.m), st)
  ELSE PositionalDone(
         handle_positional(args, tokens[st.it + 1], st.positional_index,
           Logged(st.m, Event("positional", st.it + 1, 0, st.positional_index,
                              Some(tokens[st.it + 1])))), st)

(***************************************************************************)
(* Matches: the merge steps, src/src/lib.rs                                *)
(***************************************************************************)
\* merge_toml over the entries of a table in iteration order
RECURSIVE merge_toml(_, _, _)
merge_toml(values, entries, prefix) ==
  IF Len(entries) = 0 THEN values
  ELSE LET key      == Head(entries).k
           value    == Head(entries).v
           full_key == IF Len(prefix) = 0 THEN key ELSE prefix \o <<".">> \o key
           inner    == IF value.t = "Table"
                       THEN merge_toml(values, value.e, full_key)
                       ELSE values
       IN  merge_toml(OrInsert(inner, full_key, value), Tail(entries), prefix)

\* a variant of with_toml that does not descend into nested tables
with_toml_shallow(values, table) ==
  merge_toml(values,
             [i \in 1..Len(table.e) |->
                IF table.e[i].v.t = "Table" THEN Entry(table.e[i].k, VTable(<<>>))
                ELSE table.e[i]],
             <<>>)

with_toml(values, table) == merge_toml(values, table.e, <<>>)

\* a variant of with_defaults that stops after the first definition
with_defaults_first_only(values, args) ==
  IF Len(args) = 0 THEN values
  ELSE IF ~contains_key(values, Head(args).name) /\ Head(args).default.some
  THEN Insert(values, Head(args).name, Head(args).default.v)
  ELSE values

\* a variant of with_defaults that replaces values already present
RECURSIVE with_defaults_replacing(_, _)
with_defaults_replacing(values, args) ==
  IF Len(args) = 0 THEN values
  ELSE with_defaults_replacing(
         IF Head(args).default.some
         THEN Insert(values, Head(args).name, Head(args).default.v)
         ELSE values,
         Tail(args))

RECURSIVE with_defaults(_, _)
with_defaults(values, args) ==
  IF Len(args) = 0 THEN values
  ELSE LET arg == Head(args)
       IN  with_defaults(
             IF ~contains_key(values, arg.name) /\ arg.default.some
             THEN Insert(values, arg.name, arg.default.v)
             ELSE values,
             Tail(args))

(***************************************************************************)
(* Args::parse_from, src/src/lib.rs                                        *)
(***************************************************************************)
\* iter.next().cloned() after the k-th token
NextToken(tokens, k) == IF k < Len(tokens) THEN Some(tokens[k + 1]) ELSE None

\* chars.iter().position(|&ch| ch == 'c') on a combined short cluster
CombinedConfig(tokens, k) ==
  LET chars == Drop(tokens[k], 1)
      pos   == Find(chars, "c")
  IN  IF pos = Len(chars) THEN NextToken(tokens, k) ELSE Some(Drop(chars, pos))

\* extract_config_path, from the k-th token on
RECURSIVE extract_config_from(_, _, _)
extract_config_from(self, tokens, k) ==
  IF k > Len(tokens) THEN self.default_config
  ELSE LET arg    == tokens[k]
           config == <<"-","-","c","o","n","f","i","g">>
           long   == StartsWith(arg, config)
           rest   == Drop(arg, Len(config))
       IN  IF long /\ StartsWith(rest, <<"=">>) THEN Some(Drop(rest, 1))
           ELSE IF long /\ Len(rest) = 0 THEN NextToken(tokens, k)
           ELSE IF StartsWith(arg, <<"-","c">>)
           THEN (IF Len(arg) = 2 THEN NextToken(tokens, k) ELSE Some(Drop(arg, 2)))
           ELSE IF StartsWith(arg, <<"-">>) /\ ~StartsWith(arg, <<"-","-">>)
                   /\ Find(arg, "c") > 0
           THEN CombinedConfig(tokens, k)
           ELSE extract_config_from(self, tokens, k + 1)

extract_config_path(self, tokens) == extract_config_from(self, tokens, 1)

\* A file system is a function from the paths that exist to their files; a
\* file is Some(table) when it holds TOML and None when it does not parse.
PathExists(fs, p) == p \in DOMAIN fs

\* stoml::parse_file
parse_file(fs, p) ==
  IF ~PathExists(fs, p) THEN Err(IoError(p))
  ELSE IF ~fs[p].some THEN Err(TomlError(p))
  ELSE Ok(fs[p].v)

\* Ok(Some(stoml::parse_file(p)?))
Loaded(r) == IF r.ok THEN Ok(Some(r.v)) ELSE r

load_config_file(self, fs, path) ==
  IF ~path.some THEN Ok(None)
  ELSE IF self.default_config = Some(path.v) /\ ~PathExists(fs, path.v) THEN Ok(None)
  ELSE Loaded(parse_file(fs, path.v))

\* a variant of FirstMissing that picks the last absent required argument
FirstMissing_last(args, values) ==
  LET missing == {i \in 1..Len(args) :
                    args[i].required /\ ~contains_key(values, args[i].name)}
  IN  IF missing = {} THEN 0 ELSE CHOOSE i \in missing : \A j \in missing : i >= j

\* the first required argument missing from the mapping, 0 when there is none
FirstMissing(args, values) ==
  LET missing == {i \in 1..Len(args) :
                    args[i].required /\ ~contains_key(values, args[i].name)}
  IN  IF missing = {} THEN 0 ELSE CHOOSE i \in missing : \A j \in missing : i <= j

\* the loop over self.args that checks the required arguments
missing_error(args, i, values) ==
  IF i = 0 THEN Ok(values)
  ELSE IF args[i].positional
  THEN Err(MissingPositional(args[i].name,
             IF args[i].position.some THEN args[i].position.v ELSE 0))
  ELSE Err(MissingRequired(args[i].name))

check_required(args, values) == missing_error(args, FirstMissing(args, values), values)

\* a variant of finish_parse that fills in the declared defaults before it
\* checks the required arguments
finish_parse_defaults_first(self, config_table, values) ==
  IF self.auto_help /\ get_bool(values, HelpArg.name) THEN Err(HelpRequested)
  ELSE IF self.auto_version /\ get_bool(values, VersionArg.name) THEN Err(VersionRequested)
  ELSE check_required(self.args,
         with_defaults(IF config_table.some THEN with_toml(values, config_table.v) ELSE values,
                       self.args))

\* a variant of finish_parse that looks at version before help
finish_parse_version_first(self, config_table, values) ==
  IF self.auto_version /\ get_bool(values, VersionArg.name) THEN Err(VersionRequested)
  ELSE IF self.auto_help /\ get_bool(values, HelpArg.name) THEN Err(HelpRequested)
  ELSE check_required(self.args,
         IF config_table.some THEN with_toml(values, config_table.v) ELSE values)

\* parse_from after the tokenizer returned Ok: help and version, the merge of
\* the loaded configuration, the required arguments
finish_parse(self, config_table, values) ==
  IF self.auto_help /\ get_bool(values, HelpArg.name) THEN Err(HelpRequested)
  ELSE IF self.auto_version /\ get_bool(values, VersionArg.name) THEN Err(VersionRequested)
  ELSE check_required(self.args,
         IF config_table.some THEN with_toml(values, config_table.v) ELSE values)

(***************************************************************************)
(* The programs, inputs and environments the model is run on               *)
(***************************************************************************)
\* how many command-line tokens an input holds at most
MaxTokens == 3

\* how many tokens an input of the tokenizer runs holds at most
MaxCliTokens == 4

\* how many merge steps a caller applies to a returned Matches at most
MaxOps == 2

N_port == <<"p","o","r","t">>

N_verbose == <<"v","e","r","b","o","s","e">>

N_quiet == <<"q","u","i","e","t">>

N_no_quiet == <<"n","o","-","q","u","i","e","t">>

N_name == <<"n","a","m","e">>

N_no_name == <<"n","o","-","n","a","m","e">>

N_input == <<"i","n","p","u","t">>

N_server == <<"s","e","r","v","e","r">>

K_server_port == <<"s","e","r","v","e","r",".","p","o","r","t">>

DefaultConfigPath == <<"c",".","t","o","m","l">>

\* the argument definitions of a server, after src/examples/server.rs
arg_defs ==
  << Arg_toml_key(Arg_default(Arg_arg_type(Arg_long(Arg_short(Arg_new(N_port), "p"), N_port),
                                           "Integer"), IntV(8080)), K_server_port),
     Arg_count(Arg_long(Arg_short(Arg_new(N_verbose), "v"), N_verbose)),
     Arg_flag(Arg_long(Arg_short(Arg_new(N_quiet), "q"), N_quiet)),
     Arg_flag(Arg_long(Arg_new(N_no_quiet), N_no_quiet)),
     Arg_long(Arg_short(Arg_new(N_name), "n"), N_name),
     Arg_flag(Arg_long(Arg_new(N_no_name), N_no_name)),
     Arg_positional(N_input) >>

\* the same definitions with port, name and input required
strict_defs ==
  [i \in 1..Len(arg_defs) |->
     IF arg_defs[i].name \in {N_port, N_name, N_input}
     THEN Arg_required(arg_defs[i]) ELSE arg_defs[i]]

\* another list of definitions, with defaults of its own
alt_defs ==
  << Arg_default(Arg_arg_type(Arg_long(Arg_new(N_port), N_port), "Integer"), IntV(1)),
     Arg_default(Arg_long(Arg_new(N_name), N_name), VString(<<"a","n","o","n">>)),
     Arg_default(Arg_flag(Arg_long(Arg_new(N_quiet), N_quiet)), VBoolean(TRUE)) >>

DefaultLists == {arg_defs, alt_defs}

\* args("myserver").config_arg_default("c.toml") with the definitions folded in
AppServer == Args_fold(Args_config_arg_default(Args_new, DefaultConfigPath), arg_defs)

AppStrict == Args_fold(Args_config_arg_default(Args_new, DefaultConfigPath), strict_defs)

\* [server] port = 9090, and quiet = true, name = "cfg" at the top
TreeServer ==
  VTable(<< Entry(N_server, VTable(<< Entry(N_port, IntV(9090)) >>)),
            Entry(N_quiet, VBoolean(TRUE)),
            Entry(N_name, VString(<<"c","f","g">>)) >>)

\* port = "http" (a string for an Integer argument), verbose = 2, input = "in"
TreeFlat ==
  VTable(<< Entry(N_port, VString(<<"h","t","t","p">>)),
            Entry(N_verbose, IntV(2)),
            Entry(N_input, VString(<<"i","n">>)) >>)

Trees == {TreeServer, TreeFlat}

\* the file systems: no config file, or the default path holding a tree
NoFiles == EmptyMap

FileSystems == {NoFiles} \cup {[p \in {DefaultConfigPath} |-> Some(t)] : t \in Trees}

\* the sequences over S of length at most n
BoundedSeq(S, n) == UNION {[1..k -> S] : k \in 0..n}

\* tokens of the merge and validation runs
MergeVocab ==
  { <<"-","-","p","o","r","t","=","9">>, <<"-","v">>, <<"-","-","n","o","-","q","u","i","e","t">>, <<"-","-","n","a","m","e","=","x">>, <<"f">>, <<"-","h">>, <<"-","-">> }

\* tokens of the runs on the `--` terminator
PassVocab == { <<"-","-">>, <<"-","v">>, <<"f">>, <<"-","-","n","a","m","e">>, <<"-","-","p","o","r","t","=","9">>, <<"-","q">> }

\* tokens of the runs on --no-flag
NegVocab == { <<"-","-","n","o","-","q","u","i","e","t">>, <<"-","-","q","u","i","e","t">>, <<"-","-","n","o","-","n","a","m","e">>, <<"-","-","n","o","-","p","o","r","t">>, <<"-","-","n","o","-","q","u","i","e","t","=","y","e","s">>, <<"f">> }

\* tokens of the runs on Count arguments
CountVocab == { <<"-","v">>, <<"-","v","v">>, <<"-","-","v","e","r","b","o","s","e">>, <<"-","-","v","e","r","b","o","s","e","=","5">>, <<"-","q","v">>, <<"-","n","v">>, <<"-","-">> }

\* tokens of the runs on short clusters
ClusterVocab == { <<"-","v","p","9">>, <<"-","q","v","p">>, <<"9">>, <<"-","n","v","q">>, <<"-","v","q">>, <<"-","q","n">> }

\* the default path holding the given tree
FileWith(tree) == [p \in {DefaultConfigPath} |-> Some(tree)]

(***************************************************************************)
(* The state machine                                                       *)
(***************************************************************************)
VARIABLES
  self,              \* the Args value parse_from runs on
  fs,                \* the files that exist
  tokens,            \* the command line handed to parse_from
  pc,                \* "start", "tokenize", "returned" or "failed"
  config_table,      \* the configuration parse_from loaded, if any
  values,            \* Matches.values
  remaining,         \* Matches.remaining
  args_iter,         \* how many tokens the tokenizer's iterator has yielded
  positional_index,
  seen_double_dash,
  result,            \* None while running, then Some(Ok) or Some(Err(e))
  log,               \* history: the tokenizer's dispatches
  tokenized,         \* history: the tokenizer returned Ok
  cli_values,        \* history: Matches.values as the tokenizer returned it
  ops                \* history: the merge steps applied to the returned Matches

vars == <<self, fs, tokens, pc, config_table, values, remaining, args_iter,
          positional_index, seen_double_dash, result, log, tokenized, cli_values, ops>>

InitWith(apps, files, vocab, n) ==
  /\ self \in apps
  /\ fs \in files
  /\ tokens \in BoundedSeq(vocab, n)
  /\ pc = "start"
  /\ config_table = None
  /\ values = EmptyMap
  /\ remaining = <<>>
  /\ args_iter = 0
  /\ positional_index = 0
  /\ seen_double_dash = FALSE
  /\ result = None
  /\ log = <<>>
  /\ tokenized = FALSE
  /\ cli_values = EmptyMap
  /\ ops = <<>>

Init == InitWith({AppServer, AppStrict}, FileSystems, MergeVocab, MaxTokens)

InitPass == InitWith({AppServer}, {NoFiles, FileWith(TreeServer)}, PassVocab, MaxCliTokens)

InitNeg == InitWith({AppServer}, {NoFiles, FileWith(TreeServer)}, NegVocab, MaxCliTokens)

InitCount == InitWith({AppServer}, {NoFiles, FileWith(TreeFlat)}, CountVocab, MaxCliTokens)

InitCluster == InitWith({AppServer}, {NoFiles, FileWith(TreeServer)}, ClusterVocab, MaxCliTokens)

\* parse_from up to the tokenizer: the pre-scan for the config path, the load
\* of the config file, the automatic flags
config_for(app, files, args) ==
  IF app.auto_config
  THEN load_config_file(app, files, extract_config_path(app, args))
  ELSE Ok(None)

LoadConfig ==
  /\ pc = "start"
  /\ \E loaded \in {config_for(self, fs, tokens)} :
       IF loaded.ok
       THEN /\ config_table' = loaded.v
            /\ self' = [self EXCEPT !.args = WithAutoFlags(self)]
            /\ pc' = "tokenize"
            /\ result' = result
       ELSE /\ pc' = "failed"
            /\ result' = Some(loaded)
            /\ UNCHANGED <<config_table, self>>
  /\ UNCHANGED <<fs, tokens, values, remaining, args_iter, positional_index,
                 seen_double_dash, log, tokenized, cli_values, ops>>

\* one iteration of the tokenizer's loop
ParseStep ==
  /\ pc = "tokenize"
  /\ args_iter < Len(tokens)
  /\ \E r \in {parse_token(self.args, tokens,
                  [m |-> [values |-> values, remaining |-> remaining, log |-> log],
                   it |-> args_iter, positional_index |-> positional_index,
                   seen_double_dash |-> seen_double_dash])} :
       IF r.ok
       THEN /\ values' = r.v.m.values
            /\ remaining' = r.v.m.remaining
            /\ log' = r.v.m.log
            /\ args_iter' = r.v.it
            /\ positional_index' = r.v.positional_index
            /\ seen_double_dash' = r.v.seen_double_dash
            /\ UNCHANGED <<pc, result>>
       ELSE /\ pc' = "failed"
            /\ result' = Some(r)
            /\ UNCHANGED <<values, remaining, log, args_iter, positional_index,
                           seen_double_dash>>
  /\ UNCHANGED <<self, fs, tokens, config_table, tokenized, cli_values, ops>>

\* the tokenizer returns Ok(matches); parse_from checks help and version,
\* merges the configuration and checks the required arguments
Finish ==
  /\ pc = "tokenize"
  /\ args_iter = Len(tokens)
  /\ tokenized' = TRUE
  /\ cli_values' = values
  /\ \E r \in {finish_parse(self, config_table, values)} :
       IF r.ok
       THEN /\ values' = r.v
            /\ pc' = "returned"
            /\ result' = Some(Ok("matches"))
       ELSE /\ pc' = "failed"
            /\ result' = Some(r)
            /\ UNCHANGED values
  /\ UNCHANGED <<self, fs, tokens, config_table, remaining, args_iter,
                 positional_index, seen_double_dash, log, ops>>

\* Matches::with_toml on the returned Matches
WithToml ==
  /\ pc = "returned"
  /\ Len(ops) < MaxOps
  /\ \E table \in Trees :
       /\ values' = with_toml(values, table)
       /\ ops' = Append(ops, [op |-> "with_toml", table |-> table])
  /\ UNCHANGED <<self, fs, tokens, pc, config_table, remaining, args_iter,
                 positional_index, seen_double_dash, result, log, tokenized, cli_values>>

\* Matches::with_defaults on the returned Matches
WithDefaults ==
  /\ pc = "returned"
  /\ Len(ops) < MaxOps
  /\ \E defs \in DefaultLists :
       /\ values' = with_defaults(values, defs)
       /\ ops' = Append(ops, [op |-> "with_defaults", args |-> defs])
  /\ UNCHANGED <<self, fs, tokens, pc, config_table, remaining, args_iter,
                 positional_index, seen_double_dash, result, log, tokenized, cli_values>>

Next == LoadConfig \/ ParseStep \/ Finish \/ WithToml \/ WithDefaults

Spec == Init /\ [][Next]_vars

SpecPass == InitPass /\ [][Next]_vars

SpecNeg == InitNeg /\ [][Next]_vars

SpecCount == InitCount /\ [][Next]_vars

SpecCluster == InitCluster /\ [][Next]_vars

(***************************************************************************)
(* Definitions the properties are stated with                              *)
(***************************************************************************)
\* str::split('.')
RECURSIVE SplitDots(_)
SplitDots(s) ==
  IF Find(s, ".") = 0 THEN <<s>>
  ELSE <<SubSeq(s, 1, Find(s, ".") - 1)>> \o SplitDots(Drop(s, Find(s, ".")))

\* Table::get
TableGet(entries, k) ==
  IF \E i \in 1..Len(entries) : entries[i].k = k
  THEN Some(entries[CHOOSE i \in 1..Len(entries) : entries[i].k = k].v)
  ELSE None

\* the value a tree holds at a path of keys
RECURSIVE TreeLookup(_, _)
TreeLookup(value, path) ==
  IF Len(path) = 0 THEN Some(value)
  ELSE IF value.t # "Table" THEN None
  ELSE IF ~TableGet(value.e, Head(path)).some THEN None
  ELSE TreeLookup(TableGet(value.e, Head(path)).v, Tail(path))

\* the path an argument is to be looked up at in the configuration
ConfigPath(a) == SplitDots(IF a.toml_key.some THEN a.toml_key.v ELSE a.name)

\* the flat keys a tree is merged under
Flat(table) == with_toml(EmptyMap, table)

\* the configuration parse_from loaded holds a value under this key
LoadedHolds(k) == config_table.some /\ k \in DOMAIN Flat(config_table.v)

TomlHolds(i, k) == ops[i].op = "with_toml" /\ k \in DOMAIN Flat(ops[i].table)

DefaultHolds(i, k) ==
  /\ ops[i].op = "with_defaults"
  /\ \E n \in 1..Len(ops[i].args) : ops[i].args[n].name = k /\ ops[i].args[n].default.some

\* the default a list of definitions gives a name: that of the first definition
\* of the name that has one
DefaultOf(defs, k) ==
  defs[CHOOSE n \in 1..Len(defs) :
         /\ defs[n].name = k /\ defs[n].default.some
         /\ \A n2 \in 1..(n - 1) : ~(defs[n2].name = k /\ defs[n2].default.some)].default.v

\* the first merge step with the given property, 0 when there is none
FirstOp(P(_)) ==
  IF \E i \in 1..Len(ops) : P(i)
  THEN CHOOSE i \in 1..Len(ops) : P(i) /\ \A j \in 1..(i - 1) : ~P(j)
  ELSE 0

ArgNames == {arg_defs[n].name : n \in 1..Len(arg_defs)}

HelpOrVersion ==
  \/ self.auto_help /\ get_bool(cli_values, HelpArg.name)
  \/ self.auto_version /\ get_bool(cli_values, VersionArg.name)

\* the mapping after parse_from merged the configuration it loaded
AfterConfig == IF config_table.some THEN with_toml(cli_values, config_table.v) ELSE cli_values

(***************************************************************************)
(* C1. CLI precedence: every key the tokenizer put in the mapping keeps   *)
(* its value, and stays in the mapping, through the configuration merge of *)
(* parse_from and through every later with_toml and with_defaults, with    *)
(* any tree and any list of definitions, in any order.                    *)
(***************************************************************************)
C1_CliPrecedence ==
  tokenized =>
    \A k \in DOMAIN cli_values : k \in DOMAIN values /\ values[k] = cli_values[k]

\* --no-quiet on the command line, then a tree with quiet = true and a list of
\* definitions with a default for quiet were merged
C1_Witness ==
  /\ pc = "returned"
  /\ N_quiet \in DOMAIN cli_values
  /\ cli_values[N_quiet] = VBoolean(FALSE)
  /\ \E i \in 1..Len(ops) : ops[i].op = "with_toml" /\ ops[i].table = TreeServer
  /\ \E i \in 1..Len(ops) : ops[i].op = "with_defaults" /\ ops[i].args = alt_defs

(***************************************************************************)
(* C2. Config fallback, as claimed: when parse_from returns, an argument   *)
(* that the command line did not set and whose config key path (toml_key,  *)
(* or its name) holds a value in the loaded tree is resolved, under its    *)
(* name, to that value.  The code never reads toml_key: it merges a tree   *)
(* under the tree's own dotted keys, so this fails for port, whose         *)
(* toml_key is server.port.                                                *)
(***************************************************************************)
C2_ConfigFallback ==
  (pc = "returned" /\ ops = <<>> /\ config_table.some) =>
    \A n \in 1..Len(self.args) :
      (/\ self.args[n].name \notin DOMAIN cli_values
       /\ TreeLookup(config_table.v, ConfigPath(self.args[n])).some)
      => /\ self.args[n].name \in DOMAIN values
         /\ values[self.args[n].name] = TreeLookup(config_table.v, ConfigPath(self.args[n])).v

(***************************************************************************)
(* C3. Default fallback: after with_defaults with a list of definitions, an *)
(* argument of the list that neither the command line nor any merged tree  *)
(* gave a value under its name has its declared default, and is absent     *)
(* from the mapping when it declares none.                                 *)
(***************************************************************************)
C3_DefaultFallback ==
  \A i \in 1..Len(ops) :
    (/\ ops[i].op = "with_defaults"
     /\ \A j \in 1..Len(ops) : ops[j].op = "with_defaults" => ops[j].args = ops[i].args)
    => \A n \in 1..Len(ops[i].args) :
         (/\ ops[i].args[n].name \notin DOMAIN cli_values
          /\ ~LoadedHolds(ops[i].args[n].name)
          /\ \A j \in 1..Len(ops) : ~TomlHolds(j, ops[i].args[n].name))
         => IF ops[i].args[n].default.some
            THEN /\ ops[i].args[n].name \in DOMAIN values
                 /\ values[ops[i].args[n].name] = ops[i].args[n].default.v
            ELSE ops[i].args[n].name \notin DOMAIN values

\* with_defaults(arg_defs) gave port its default 8080 and left name, which
\* declares none, out of the mapping
C3_Witness ==
  /\ pc = "returned"
  /\ Len(ops) > 0
  /\ ops[Len(ops)] = [op |-> "with_defaults", args |-> arg_defs]
  /\ N_port \notin DOMAIN cli_values
  /\ N_port \in DOMAIN values
  /\ values[N_port] = IntV(8080)
  /\ N_name \notin DOMAIN values

(***************************************************************************)
(* C4. Config over default.  As claimed (C4_AnyOrder): an argument that    *)
(* the command line did not set, that a merged tree holds under its name   *)
(* and that a list of definitions gives a default, resolves to the tree's  *)
(* value whichever of with_toml and with_defaults came first.  The code     *)
(* inserts only when absent, so the first of the two steps wins.           *)
(* As amended (C4_FirstWriterWins): it resolves to the tree's value when   *)
(* with_toml came first, and to the default when with_defaults came first. *)
(***************************************************************************)
C4_Applies(k) ==
  /\ pc = "returned"
  /\ k \notin DOMAIN cli_values
  /\ ~LoadedHolds(k)
  /\ FirstOp(LAMBDA i : TomlHolds(i, k)) # 0
  /\ FirstOp(LAMBDA i : DefaultHolds(i, k)) # 0

C4_ConfigValue(k) == Flat(ops[FirstOp(LAMBDA i : TomlHolds(i, k))].table)[k]

C4_DefaultValue(k) == DefaultOf(ops[FirstOp(LAMBDA i : DefaultHolds(i, k))].args, k)

C4_AnyOrder ==
  \A k \in ArgNames : C4_Applies(k) => values[k] = C4_ConfigValue(k)

C4_FirstWriterWins ==
  \A k \in ArgNames :
    C4_Applies(k) =>
      IF FirstOp(LAMBDA i : TomlHolds(i, k)) < FirstOp(LAMBDA i : DefaultHolds(i, k))
      THEN values[k] = C4_ConfigValue(k)
      ELSE values[k] = C4_DefaultValue(k)

\* quiet, with the default false of arg_defs and quiet = true in the tree:
\* the tree was merged first and quiet is true
C4_Witness ==
  /\ pc = "returned"
  /\ N_quiet \notin DOMAIN cli_values
  /\ ~LoadedHolds(N_quiet)
  /\ ops = << [op |-> "with_toml", table |-> TreeServer],
              [op |-> "with_defaults", args |-> arg_defs] >>
  /\ values[N_quiet] = VBoolean(TRUE)

(***************************************************************************)
(* C5. Required arguments and defaults.  As claimed (C5_DefaultSatisfies): *)
(* parse_from never fails with MissingRequired or MissingPositional for an *)
(* argument that declares a default.  The code checks the required         *)
(* arguments right after the configuration merge and applies no default    *)
(* itself.  As amended (C5_RequiredBeforeDefaults): when the tokenizer      *)
(* succeeds and neither help nor version is asked for, a required argument *)
(* that neither the command line nor the loaded tree gave a value under    *)
(* its name makes parse_from fail with MissingRequired or                  *)
(* MissingPositional, whether or not it declares a default; and the         *)
(* mapping parse_from returns holds no value taken from a default.         *)
(***************************************************************************)
MissingKinds == {"MissingRequired", "MissingPositional"}

HasDefault(args, k) == \E n \in 1..Len(args) : args[n].name = k /\ args[n].default.some

C6_Absent == {n \in 1..Len(self.args) :
                self.args[n].required /\ self.args[n].name \notin DOMAIN AfterConfig}

C6_First == CHOOSE n \in C6_Absent : \A n2 \in C6_Absent : n <= n2

C6_Slot(n) == Cardinality({n2 \in 1..(n - 1) : self.args[n2].positional})

C6_MissingRequired ==
  (tokenized /\ ~HelpOrVersion) =>
    IF C6_Absent = {}
    THEN pc = "returned"
    ELSE /\ pc = "failed"
         /\ result = Some(Err(IF self.args[C6_First].positional
                              THEN MissingPositional(self.args[C6_First].name, C6_Slot(C6_First))
                              ELSE MissingRequired(self.args[C6_First].name)))

\* port came from the command line and name from the loaded tree; the
\* positional input is the first required argument still absent
C6_Witness ==
  /\ pc = "failed"
  /\ tokenized
  /\ N_port \in DOMAIN cli_values
  /\ N_name \notin DOMAIN cli_values
  /\ LoadedHolds(N_name)
  /\ result = Some(Err(MissingPositional(N_input, 0)))

(***************************************************************************)
(* Definitions the tokenizer's properties are stated with                  *)
(***************************************************************************)
\* the mapping as the tokenizer built it, so far or in the end
TokValues == IF tokenized THEN cli_values ELSE values

ValueTyped(a) == a.arg_type \notin {"Bool", "Count"}

\* the dispatch took the token after its own as the flag's value
TookNext(e) ==
  /\ e.form \in {"short", "long"}
  /\ ValueTyped(self.args[e.arg])
  /\ IF e.form = "short" THEN e.at = Len(tokens[e.tok]) - 1 ELSE Find(tokens[e.tok], "=") = 0

\* the d-th token was consumed as the value of the flag before it
ConsumedAsValue(d) == \E i \in 1..Len(log) : log[i].tok = d - 1 /\ TookNext(log[i])

\* the tokenizer is about to process a token
AtToken == pc = "tokenize" /\ args_iter < Len(tokens)

(***************************************************************************)
(* C7. PassThrough is permanent: once the tokenizer has processed a token  *)
(* that is exactly `--` in Normal state, each later token, whatever it     *)
(* looks like, is appended to remaining in input order, the step cannot    *)
(* fail, the mapping and the positional index do not change and            *)
(* seen_double_dash stays set; and at every moment remaining is exactly    *)
(* the tokens processed after the first `--` that was not consumed as a    *)
(* flag's value, and is empty when there is none.                          *)
(***************************************************************************)
C7_Terminator ==
  IF \E d \in 1..args_iter : tokens[d] = <<"-","-">> /\ ~ConsumedAsValue(d)
  THEN CHOOSE d \in 1..args_iter :
         /\ tokens[d] = <<"-","-">> /\ ~ConsumedAsValue(d)
         /\ \A d2 \in 1..(d - 1) : ~(tokens[d2] = <<"-","-">> /\ ~ConsumedAsValue(d2))
  ELSE 0

C7_Remaining ==
  IF C7_Terminator = 0
  THEN ~seen_double_dash /\ remaining = <<>>
  ELSE seen_double_dash /\ remaining = SubSeq(tokens, C7_Terminator + 1, args_iter)

C7_Step ==
  (AtToken /\ seen_double_dash) =>
    /\ pc' = "tokenize"
    /\ seen_double_dash'
    /\ args_iter' = args_iter + 1
    /\ remaining' = Append(remaining, tokens[args_iter + 1])
    /\ values' = values
    /\ positional_index' = positional_index
    /\ log' = log

C7_PassThrough == [][C7_Step]_vars /\ []C7_Remaining

\* after `--`: another `--`, a token that looks like a flag, a bare word
C7_Witness ==
  /\ pc = "tokenize"
  /\ seen_double_dash
  /\ tokens = << <<"-","-">>, <<"-","-">>, <<"-","v">>, <<"f">> >>
  /\ args_iter = 4
  /\ remaining = << <<"-","-">>, <<"-","v">>, <<"f">> >>
  /\ values = EmptyMap
  /\ positional_index = 0

(***************************************************************************)
(* C8. Negation: in Normal state a token --no-X, X the long alias of a     *)
(* Boolean argument, sets that argument to false and nothing else, even    *)
(* when an argument has the long alias no-X; when X is no Boolean long     *)
(* alias the token is looked up as the long flag no-X (unknown: the        *)
(* UnknownFlag error with the whole token; a Boolean flag: true, or its    *)
(* inline value).  A value set to false this way stays false through the   *)
(* configuration merge of parse_from and every later merge.                *)
(***************************************************************************)
C8_ByLong(l, types) ==
  {n \in 1..Len(self.args) : self.args[n].long = Some(l) /\ self.args[n].arg_type \in types}

C8_Sets(n, b) ==
  /\ pc' = "tokenize"
  /\ args_iter' = args_iter + 1
  /\ values' = Insert(values, self.args[n].name, VBoolean(b))
  /\ UNCHANGED <<remaining, positional_index, seen_double_dash>>

\* the name of a long flag token: without its "--" and its "=value"
C8_FlagName(tok) ==
  IF Find(tok, "=") = 0 THEN Drop(tok, 2) ELSE SubSeq(tok, 3, Find(tok, "=") - 1)

C8_InlineBool(tok) ==
  IF Find(tok, "=") = 0 THEN TRUE
  ELSE to_lowercase(Drop(tok, Find(tok, "="))) \in {<<"t","r","u","e">>, <<"1">>, <<"y","e","s">>}

C8_Step ==
  (AtToken /\ ~seen_double_dash /\ StartsWith(tokens[args_iter + 1], <<"-","-","n","o","-">>)) =>
    IF C8_ByLong(Drop(tokens[args_iter + 1], 5), {"Bool"}) # {}
    THEN \E n \in C8_ByLong(Drop(tokens[args_iter + 1], 5), {"Bool"}) : C8_Sets(n, FALSE)
    ELSE IF C8_ByLong(C8_FlagName(tokens[args_iter + 1]), ArgTypes) = {}
    THEN pc' = "failed" /\ result' = Some(Err(UnknownFlag(<<"-","-">> \o C8_FlagName(tokens[args_iter + 1]))))
    ELSE \A n \in C8_ByLong(C8_FlagName(tokens[args_iter + 1]), {"Bool"}) :
           C8_Sets(n, C8_InlineBool(tokens[args_iter + 1]))

C8_StaysFalse ==
  \A n \in 1..Len(self.args) :
    (/\ tokenized
     /\ self.args[n].name \in DOMAIN cli_values
     /\ cli_values[self.args[n].name] = VBoolean(FALSE))
    => ~get_bool(values, self.args[n].name) /\ self.args[n].name \in DOMAIN values

C8_Negation == [][C8_Step]_vars /\ []C8_StaysFalse

\* --no-name set the flag no-name (name is no Boolean), --no-quiet set quiet
\* to false and not the flag no-quiet, and the trees with quiet = true that
\* parse_from and with_toml merged left quiet false
C8_Witness ==
  /\ pc = "returned"
  /\ tokens = << <<"-","-","n","o","-","n","a","m","e">>, <<"-","-","n","o","-","q","u","i","e","t">> >>
  /\ config_table = Some(TreeServer)
  /\ ops = << [op |-> "with_toml", table |-> TreeServer] >>
  /\ values[N_no_name] = VBoolean(TRUE)
  /\ values[N_quiet] = VBoolean(FALSE)
  /\ N_no_quiet \notin DOMAIN values

(***************************************************************************)
(* C9. Count accumulation: while and after the tokenizer runs, a Count     *)
(* argument's stored integer is the number of times the tokenizer has      *)
(* dispatched to it, each character of a short cluster and each long form  *)
(* (with or without an inline value) counting once, and the key is absent  *)
(* while that number is zero; an argument that occurred keeps that count   *)
(* in the Matches parse_from returns and through later merges.  On         *)
(* command lines made of -v, -vv, --verbose and --verbose=5 only, the      *)
(* count after the tokenizer is the number of v characters of the short    *)
(* tokens plus the number of long tokens.                                  *)
(***************************************************************************)
C9_Occurrences(n) ==
  Cardinality({i \in 1..Len(log) : log[i].form \in {"short", "long"} /\ log[i].arg = n})

C9_PerToken(tok) == IF StartsWith(tok, <<"-","-">>) THEN 1 ELSE Len(tok) - 1

RECURSIVE C9_Sum(_)
C9_Sum(toks) == IF Len(toks) = 0 THEN 0 ELSE C9_PerToken(Head(toks)) + C9_Sum(Tail(toks))

C9_PureVocab == { <<"-","v">>, <<"-","v","v">>, <<"-","-","v","e","r","b","o","s","e">>, <<"-","-","v","e","r","b","o","s","e","=","5">> }

C9_CountAccumulation ==
  /\ \A n \in 1..Len(self.args) :
       self.args[n].arg_type = "Count" =>
         IF C9_Occurrences(n) = 0
         THEN self.args[n].name \notin DOMAIN TokValues
         ELSE /\ self.args[n].name \in DOMAIN TokValues
              /\ TokValues[self.args[n].name] = IntV(C9_Occurrences(n))
              /\ values[self.args[n].name] = IntV(C9_Occurrences(n))
  /\ (tokenized /\ \A d \in 1..Len(tokens) : tokens[d] \in C9_PureVocab)
       => get_count(cli_values, N_verbose) = IntV(C9_Sum(tokens))

\* -vv, --verbose=5, -qv and then -nv, whose v is the value of -n
C9_Witness ==
  /\ pc = "returned"
  /\ tokens = << <<"-","v","v">>, <<"-","-","v","e","r","b","o","s","e","=","5">>, <<"-","q","v">>, <<"-","n","v">> >>
  /\ get_count(values, N_verbose) = IntV(4)
  /\ values[N_name] = VString(<<"v">>)

(***************************************************************************)
(* C10. Short-cluster value consumption: every dispatch of a short flag    *)
(* is for a character all of whose predecessors in the token were Boolean  *)
(* or Count flags; a Boolean or Count flag takes no value and the next     *)
(* character of the token, if any, is dispatched next; a value-typed flag  *)
(* is given the rest of the token when characters remain and the whole     *)
(* next token otherwise, that text parsed as the argument's type is what   *)
(* the mapping holds, and no later character of the token, nor the token   *)
(* taken as the value, is dispatched.                                      *)
(***************************************************************************)
C10_Chars(e) == Drop(tokens[e.tok], 1)

C10_ValueEvent(i) ==
  /\ log[i].val = Some(IF log[i].at < Len(C10_Chars(log[i]))
                       THEN Drop(C10_Chars(log[i]), log[i].at)
                       ELSE tokens[log[i].tok + 1])
  /\ \A j \in (i + 1)..Len(log) :
       log[j].tok > (IF log[i].at < Len(C10_Chars(log[i])) THEN log[i].tok ELSE log[i].tok + 1)
  /\ self.args[log[i].arg].arg_type # "Array" =>
       /\ self.args[log[i].arg].name \in DOMAIN TokValues
       /\ Ok(TokValues[self.args[log[i].arg].name])
            = parse_value_as_type(log[i].val.v, self.args[log[i].arg].arg_type)

C10_FlagEvent(i) ==
  /\ log[i].val = None
  /\ log[i].at < Len(C10_Chars(log[i])) =>
       /\ i < Len(log)
       /\ log[i + 1].form = "short"
       /\ log[i + 1].tok = log[i].tok
       /\ log[i + 1].at = log[i].at + 1

C10_ClusterScan ==
  \A i \in 1..Len(log) :
    log[i].form = "short" =>
      /\ self.args[log[i].arg].short = Some(C10_Chars(log[i])[log[i].at])
      /\ log[i].at > 1 =>
           /\ i > 1
           /\ log[i - 1].form = "short"
           /\ log[i - 1].tok = log[i].tok
           /\ log[i - 1].at = log[i].at - 1
           /\ ~ValueTyped(self.args[log[i - 1].arg])
      /\ IF ValueTyped(self.args[log[i].arg]) THEN C10_ValueEvent(i) ELSE C10_FlagEvent(i)

\* -qvp takes the next token 9 for port, and -qn takes the next token -vq,
\* as it is, for name
C10_Witness ==
  /\ tokenized
  /\ tokens = << <<"-","q","v","p">>, <<"9">>, <<"-","q","n">>, <<"-","v","q">> >>
  /\ cli_values[N_port] = IntV(9)
  /\ cli_values[N_name] = VString(<<"-","v","q">>)
  /\ get_count(cli_values, N_verbose) = IntV(1)


(***************************************************************************)
(* The tokenizer on its own: parse_from of programs without a              *)
(* configuration file                                                      *)
(***************************************************************************)
NextTok == LoadConfig \/ ParseStep \/ Finish

N_src == <<"s","r","c">>

N_dst == <<"d","s","t">>

N_rest == <<"r","e","s","t">>

\* two positionals with aliased arguments declared between them
AppPos ==
  Args_fold(Args_new,
    << Arg_flag(Arg_long(Arg_short(Arg_new(N_quiet), "q"), N_quiet)),
       Arg_positional(N_src),
       Arg_long(Arg_short(Arg_new(N_name), "n"), N_name),
       Arg_positional(N_dst) >>)

\* the same positionals declared first
AppPosFirst ==
  Args_fold(Args_new,
    << Arg_positional(N_src),
       Arg_positional(N_dst),
       Arg_flag(Arg_long(Arg_short(Arg_new(N_quiet), "q"), N_quiet)),
       Arg_long(Arg_short(Arg_new(N_name), "n"), N_name) >>)

\* a positional and then a variadic one
AppVar ==
  Args_fold(Args_new,
    << Arg_positional(N_src),
       Arg_flag(Arg_long(Arg_short(Arg_new(N_quiet), "q"), N_quiet)),
       Arg_long(Arg_short(Arg_new(N_name), "n"), N_name),
       Arg_variadic(Arg_positional(N_rest)) >>)

PosVocab == { <<"a">>, <<"b">>, <<"-">>, <<"-","q">>, <<"-","n">>, <<"-","-","n","a","m","e","=","x">>, <<"-","-">> }

InitPos == InitWith({AppPos, AppPosFirst, AppVar}, {NoFiles}, PosVocab, MaxCliTokens)

SpecPos == InitPos /\ [][NextTok]_vars

\* the positional arguments in declaration order
NumPos == Cardinality({n \in 1..Len(self.args) : self.args[n].positional})

PosSpec(k) ==
  CHOOSE n \in 1..Len(self.args) :
    /\ self.args[n].positional
    /\ Cardinality({n2 \in 1..(n - 1) : self.args[n2].positional}) = k - 1

LastIsVariadic == NumPos > 0 /\ self.args[PosSpec(NumPos)].variadic

\* a bare `-`, or a token that does not begin with `-`
LooksPositional(tok) == tok = <<"-">> \/ ~StartsWith(tok, <<"-">>)

\* the positional tokens the tokenizer has processed in Normal state
PosTokens ==
  {d \in 1..args_iter :
     /\ LooksPositional(tokens[d])
     /\ ~ConsumedAsValue(d)
     /\ C7_Terminator = 0 \/ d < C7_Terminator}

Rank(d) == Cardinality({d2 \in PosTokens : d2 <= d})

TokenOfRank(r) == CHOOSE d \in PosTokens : Rank(d) = r

(***************************************************************************)
(* C11. Positional slot assignment: the k-th positional token (a bare `-`  *)
(* or a token not beginning with `-`, processed in Normal state and not    *)
(* taken as a flag's value) is stored under the k-th positional argument   *)
(* in declaration order, wherever the aliased arguments are declared; a    *)
(* positional token that arrives when all slots are filled and the last    *)
(* positional is not variadic makes the parse fail with                    *)
(* TooManyPositional{max = number of positionals, got = number of          *)
(* positional tokens so far, this one included}.                           *)
(***************************************************************************)
C11_Slots ==
  \A d \in PosTokens :
    (Rank(d) <= NumPos /\ ~self.args[PosSpec(Rank(d))].variadic) =>
      /\ self.args[PosSpec(Rank(d))].name \in DOMAIN TokValues
      /\ TokValues[self.args[PosSpec(Rank(d))].name] = VString(tokens[d])

C11_Overflow ==
  (/\ AtToken
   /\ ~seen_double_dash
   /\ LooksPositional(tokens[args_iter + 1])
   /\ Cardinality(PosTokens) >= NumPos
   /\ ~LastIsVariadic)
  => /\ pc' = "failed"
     /\ result' = Some(Err(TooManyPositional(NumPos, Cardinality(PosTokens) + 1)))

C11_PositionalSlots == [][C11_Overflow]_vars /\ []C11_Slots

\* a and `-` filled src and dst, with a flag between them, and b was one too many
C11_Witness ==
  /\ self = [AppPos EXCEPT !.args = WithAutoFlags(AppPos)]
  /\ tokens = << <<"a">>, <<"-","q">>, <<"-">>, <<"b">> >>
  /\ pc = "failed"
  /\ values[N_src] = VString(<<"a">>)
  /\ values[N_dst] = VString(<<"-">>)
  /\ result = Some(Err(TooManyPositional(2, 3)))

(***************************************************************************)
(* C12. Variadic accumulation: when the last positional is variadic, its   *)
(* array holds, as Strings and in input order, every positional token from *)
(* the one that reached its slot on (the key is absent while there is      *)
(* none), and the parse never fails with TooManyPositional.                *)
(***************************************************************************)
C12_Elements ==
  [i \in 1..(Cardinality(PosTokens) - NumPos + 1) |->
     VString(tokens[TokenOfRank(NumPos + i - 1)])]

C12_VariadicAccumulation ==
  LastIsVariadic =>
    /\ IF Cardinality(PosTokens) < NumPos
       THEN self.args[PosSpec(NumPos)].name \notin DOMAIN TokValues
       ELSE /\ self.args[PosSpec(NumPos)].name \in DOMAIN TokValues
            /\ TokValues[self.args[PosSpec(NumPos)].name] = VArray(C12_Elements)
    /\ pc = "failed" => result.v.e.kind # "TooManyPositional"

\* a went to src; b, `-` and a went to rest, in that order
C12_Witness ==
  /\ self = [AppVar EXCEPT !.args = WithAutoFlags(AppVar)]
  /\ tokens = << <<"a">>, <<"b">>, <<"-">>, <<"a">> >>
  /\ pc = "returned"
  /\ values[N_src] = VString(<<"a">>)
  /\ values[N_rest] = VArray(<< VString(<<"b">>), VString(<<"-">>), VString(<<"a">>) >>)


(***************************************************************************)
(* The tokenizer on a program with an argument of every type               *)
(***************************************************************************)
N_rate == <<"r","a","t","e">>

N_tag == <<"t","a","g">>

N_num == <<"n","u","m">>

AppTypes ==
  Args_fold(Args_new,
    << Arg_long(Arg_short(Arg_new(N_name), "n"), N_name),
       Arg_arg_type(Arg_long(Arg_short(Arg_new(N_port), "p"), N_port), "Integer"),
       Arg_arg_type(Arg_long(Arg_short(Arg_new(N_rate), "r"), N_rate), "Float"),
       Arg_flag(Arg_long(Arg_short(Arg_new(N_quiet), "q"), N_quiet)),
       Arg_arg_type(Arg_long(Arg_short(Arg_new(N_tag), "t"), N_tag), "Array"),
       Arg_count(Arg_long(Arg_short(Arg_new(N_verbose), "v"), N_verbose)),
       Arg_arg_type(Arg_positional(N_num), "Integer") >>)

DupVocab ==
  { <<"-","-","n","a","m","e","=","a">>, <<"-","n","b">>, <<"-","-","p","o","r","t","=","1">>, <<"-","p","x">>, <<"-","-","r","a","t","e","=","1",".","5">>, <<"-","r","2">>, <<"-","-","q","u","i","e","t">>, <<"-","q">>,
    <<"-","-","n","a","m","e">>, <<"-","q","n">> }

InitDup == InitWith({AppTypes}, {NoFiles}, DupVocab, MaxCliTokens)

SpecDup == InitDup /\ [][NextTok]_vars

\* the token being processed
Tok == tokens[args_iter + 1]

IsLong(tok) == StartsWith(tok, <<"-","-">>) /\ Len(tok) > 2

IsCluster(tok) == StartsWith(tok, <<"-">>) /\ ~StartsWith(tok, <<"-","-">>) /\ Len(tok) > 1

\* the aliased arguments with the given short alias
ByShort(c) ==
  {n \in 1..Len(self.args) : ~self.args[n].positional /\ self.args[n].short = Some(c)}

\* the characters before the k-th of a cluster are all aliases of Boolean or
\* Count arguments, so that the scan reaches the k-th
ScanReaches(tok, k) ==
  \A j \in 2..(k - 1) : \E n \in ByShort(tok[j]) : ~ValueTyped(self.args[n])

\* the places where the token holds an occurrence of the n-th argument: 0 for
\* its long form, k for the k-th character of a short cluster
Occurrences(tok, n) ==
  (IF IsLong(tok) /\ self.args[n].long = Some(C8_FlagName(tok)) THEN {0} ELSE {})
    \cup {k \in 2..Len(tok) :
            IsCluster(tok) /\ n \in ByShort(tok[k]) /\ ScanReaches(tok, k)}

\* the occurrence at place k of the token being processed has a value to take
HasValue(tok, k) ==
  \/ k = 0 /\ Find(tok, "=") # 0
  \/ k > 0 /\ k < Len(tok)
  \/ args_iter + 1 < Len(tokens)

(***************************************************************************)
(* C13. Duplicate rejection.  As claimed (C13_AnyType): a token that holds *)
(* an occurrence of an aliased String, Integer, Float or Boolean argument  *)
(* that already has a value makes the parse fail with DuplicateValue.  The *)
(* code checks for an earlier value only in set_value, which Boolean flags *)
(* never reach, and after it has fetched the value.                        *)
(* As amended (C13_ValueTyped): for a String, Integer or Float argument    *)
(* that already has a value, an occurrence that has a value to take (an    *)
(* inline value, the rest of its cluster or a next token) fails with       *)
(* DuplicateValue{name}, whatever the value text is, and one with no value *)
(* to take fails with MissingValue{name}; a repeated --quiet or -q         *)
(* succeeds and stores true.                                               *)
(***************************************************************************)
C13_Scalar == {"String", "Integer", "Float", "Bool"}

C13_AnyType ==
  [][\A n \in 1..Len(self.args) :
       (/\ AtToken /\ ~seen_double_dash
        /\ self.args[n].arg_type \in C13_Scalar
        /\ self.args[n].name \in DOMAIN values
        /\ Occurrences(Tok, n) # {})
       => pc' = "failed" /\ result'.v.e.kind = "DuplicateValue"]_vars

C13_Step ==
  \A n \in 1..Len(self.args) :
    (/\ AtToken /\ ~seen_double_dash
     /\ self.args[n].name \in DOMAIN values
     /\ Occurrences(Tok, n) # {})
    => /\ self.args[n].arg_type \in {"String", "Integer", "Float"} =>
            /\ pc' = "failed"
            /\ \A k \in Occurrences(Tok, n) :
                 result' = Some(Err(IF HasValue(Tok, k)
                                    THEN DuplicateValue(self.args[n].name)
                                    ELSE MissingValue(self.args[n].name)))
       /\ (self.args[n].arg_type = "Bool" /\ Tok \in {<<"-","-","q","u","i","e","t">>, <<"-","q">>}) =>
            /\ pc' = "tokenize"
            /\ values' = Insert(values, self.args[n].name, VBoolean(TRUE))

C13_ValueTyped == [][C13_Step]_vars

\* quiet was given twice without error; the second port, whose text is no
\* integer, was rejected as a duplicate
C13_Witness ==
  /\ tokens = << <<"-","-","p","o","r","t","=","1">>, <<"-","-","q","u","i","e","t">>, <<"-","q">>, <<"-","p","x">> >>
  /\ pc = "failed"
  /\ args_iter = 3
  /\ values[N_quiet] = VBoolean(TRUE)
  /\ values[N_port] = IntV(1)
  /\ result = Some(Err(DuplicateValue(N_port)))


ArrVocab == { <<"-","-","t","a","g","=","a">>, <<"-","t","b">>, <<"-","-","t","a","g">>, <<"-","t">>, <<"7">>, <<"-","-","t","a","g","=">>, <<"-","q","t">> }

InitArr == InitWith({AppTypes}, {NoFiles}, ArrVocab, MaxCliTokens)

SpecArr == InitArr /\ [][NextTok]_vars

\* the raw value text of a dispatch to a value-typed flag, read off the tokens:
\* what follows the first `=` or the flag's character, else the next token
RawText(e) ==
  IF e.form = "long"
  THEN (IF Find(tokens[e.tok], "=") # 0
        THEN Drop(tokens[e.tok], Find(tokens[e.tok], "="))
        ELSE tokens[e.tok + 1])
  ELSE (IF e.at + 1 < Len(tokens[e.tok])
        THEN Drop(tokens[e.tok], e.at + 1)
        ELSE tokens[e.tok + 1])

\* the dispatches to the n-th argument, in order
DispatchesTo(n) == SelectSeq(log, LAMBDA e : e.form \in {"short", "long"} /\ e.arg = n)

(***************************************************************************)
(* C14. Array accumulation: the array of an Array-typed flag holds one     *)
(* String element per occurrence, the occurrence's raw value text, in      *)
(* command-line order (the key is absent while there is no occurrence);    *)
(* an occurrence that has a value to take succeeds, and one that has none  *)
(* fails with MissingValue, never with DuplicateValue or InvalidValue.     *)
(***************************************************************************)
C14_Elements(n) ==
  [j \in 1..Len(DispatchesTo(n)) |-> VString(RawText(DispatchesTo(n)[j]))]

C14_Holds ==
  \A n \in 1..Len(self.args) :
    (self.args[n].arg_type = "Array" /\ ~self.args[n].positional) =>
      IF Len(DispatchesTo(n)) = 0
      THEN self.args[n].name \notin DOMAIN TokValues
      ELSE /\ self.args[n].name \in DOMAIN TokValues
           /\ TokValues[self.args[n].name] = VArray(C14_Elements(n))

C14_Step ==
  \A n \in 1..Len(self.args) :
    (/\ AtToken /\ ~seen_double_dash
     /\ self.args[n].arg_type = "Array" /\ ~self.args[n].positional
     /\ Occurrences(Tok, n) # {})
    => \A k \in Occurrences(Tok, n) :
         IF HasValue(Tok, k)
         THEN pc' = "tokenize" /\ Len(log') > Len(log)
         ELSE pc' = "failed" /\ result' = Some(Err(MissingValue(self.args[n].name)))

C14_ArrayAccumulation == [][C14_Step]_vars /\ []C14_Holds

\* four occurrences: an inline value, the next token taken as it is, an empty
\* inline value and the rest of a cluster
C14_Witness ==
  /\ tokens = << <<"-","-","t","a","g","=","a">>, <<"-","q","t">>, <<"-","-","t","a","g","=">>, <<"-","t","b">> >>
  /\ pc = "returned"
  /\ values[N_tag] = VArray(<< VString(<<"a">>), VString(<<"-","-","t","a","g","=">>), VString(<<"b">>) >>)
  /\ values[N_quiet] = VBoolean(TRUE)


LackVocab ==
  { <<"-","-","n","a","m","e">>, <<"-","n">>, <<"-","q","n">>, <<"-","-","n","a","m","e","=","a","=","b">>, <<"-","-","n","a","m","e","=">>, <<"-","-","p","o","r","t">>, <<"-","v","p">>, <<"7">> }

InitLack == InitWith({AppTypes}, {NoFiles}, LackVocab, MaxCliTokens)

SpecLack == InitLack /\ [][NextTok]_vars

(***************************************************************************)
(* C15. MissingValue: an occurrence of a value-typed flag in long form     *)
(* without `=`, or as the last character of its short cluster, when no     *)
(* token follows, makes the parse fail with MissingValue{name}; when a     *)
(* token follows, a successful step consumes it.  In long form with `=`    *)
(* the value is everything after the first `=` (the empty text included)   *)
(* and a successful step consumes this token only.                         *)
(***************************************************************************)
C15_Step ==
  \A n \in 1..Len(self.args) :
    (/\ AtToken /\ ~seen_double_dash
     /\ ValueTyped(self.args[n]) /\ ~self.args[n].positional
     /\ Occurrences(Tok, n) # {})
    => \A k \in Occurrences(Tok, n) :
         /\ ~HasValue(Tok, k) =>
              pc' = "failed" /\ result' = Some(Err(MissingValue(self.args[n].name)))
         /\ (HasValue(Tok, k) /\ pc' = "tokenize") =>
              args_iter' = (IF (k = 0 /\ Find(Tok, "=") # 0) \/ (k > 0 /\ k < Len(Tok))
                            THEN args_iter + 1 ELSE args_iter + 2)
         /\ (k = 0 /\ Find(Tok, "=") # 0 /\ pc' = "tokenize"
             /\ self.args[n].arg_type = "String") =>
              values' = Insert(values, self.args[n].name, VString(Drop(Tok, Find(Tok, "="))))

C15_MissingValue == [][C15_Step]_vars

\* --name=a=b gave name the text a=b and consumed nothing else; p, last in
\* its cluster and in the command line, had no value
C15_Witness ==
  /\ tokens = << <<"-","-","n","a","m","e","=","a","=","b">>, <<"-","v","p">> >>
  /\ pc = "failed"
  /\ args_iter = 1
  /\ values = (N_name :> VString(<<"a","=","b">>))
  /\ result = Some(Err(MissingValue(N_port)))


UnkVocab ==
  { <<"-","-","b","o","g","u","s">>, <<"-","-","b","o","g","u","s","=","1">>, <<"-","x">>, <<"-","q","x","v">>, <<"-","n","x","q">>, <<"-","-","n","o","-","q","u","i","e","t">>, <<"-","-","n","o","-","q","u","i","e","t","=","1">>,
    <<"-","-","n","o","-","n","a","m","e">>, <<"-","q">> }

InitUnk == InitWith({AppTypes}, {NoFiles}, UnkVocab, MaxCliTokens)

SpecUnk == InitUnk /\ [][NextTok]_vars

(***************************************************************************)
(* C16. UnknownFlag.  As claimed (C16_AnyLong): every long token whose     *)
(* name part is not in the long-alias index fails with UnknownFlag, as     *)
(* does a short cluster with an unknown character where the scan reaches   *)
(* it, and a value-typed flag's inline value never does.  The code looks   *)
(* for the negation of a Boolean alias first, so --no-quiet succeeds       *)
(* though no-quiet is no alias.                                            *)
(* As amended (C16_UnknownFlag): the same, but for a long token --no-X     *)
(* with X, the whole text after no-, the long alias of a Boolean argument. *)
(* The error names the flag as "--" and the name part, or "-" and the      *)
(* character.                                                              *)
(***************************************************************************)
C16_UnknownLong == IsLong(Tok) /\ C8_ByLong(C8_FlagName(Tok), ArgTypes) = {}

C16_Negation == StartsWith(Tok, <<"-","-","n","o","-">>) /\ C8_ByLong(Drop(Tok, 5), {"Bool"}) # {}

C16_FailsLong ==
  pc' = "failed" /\ result' = Some(Err(UnknownFlag(<<"-","-">> \o C8_FlagName(Tok))))

C16_Short ==
  /\ \A k \in 2..Len(Tok) :
       (IsCluster(Tok) /\ ByShort(Tok[k]) = {} /\ ScanReaches(Tok, k)) =>
         pc' = "failed" /\ result' = Some(Err(UnknownFlag(<<"-", Tok[k]>>)))
  /\ \A n \in 1..Len(self.args) :
       (/\ ValueTyped(self.args[n]) /\ ~self.args[n].positional
        /\ \E k \in Occurrences(Tok, n) : (k = 0 /\ Find(Tok, "=") # 0) \/ (k > 0 /\ k < Len(Tok)))
       => (pc' = "failed" => result'.v.e.kind # "UnknownFlag")

C16_AnyLong ==
  [][(AtToken /\ ~seen_double_dash) =>
       (C16_UnknownLong => C16_FailsLong) /\ C16_Short]_vars

C16_UnknownFlag ==
  [][(AtToken /\ ~seen_double_dash) =>
       ((C16_UnknownLong /\ ~C16_Negation) => C16_FailsLong) /\ C16_Short]_vars

\* --no-quiet is the negation of quiet; in -nxq the text xq is the value of
\* -n; in -qxv the scan reaches x, which is no alias
C16_Witness ==
  /\ tokens = << <<"-","-","n","o","-","q","u","i","e","t">>, <<"-","n","x","q">>, <<"-","q","x","v">> >>
  /\ pc = "failed"
  /\ args_iter = 2
  /\ values = (N_quiet :> VBoolean(FALSE) @@ N_name :> VString(<<"x","q">>))
  /\ result = Some(Err(UnknownFlag(<<"-","x">>)))


IntVocab ==
  { <<"-","-","p","o","r","t","=","9","2","2","3","3","7","2","0","3","6","8","5","4","7","7","5","8","0","7">>, <<"-","-","p","o","r","t","=","9","2","2","3","3","7","2","0","3","6","8","5","4","7","7","5","8","0","8">>,
    <<"-","-","p","o","r","t","=","-","9","2","2","3","3","7","2","0","3","6","8","5","4","7","7","5","8","0","8">>, <<"-","-","p","o","r","t","=","-","9","2","2","3","3","7","2","0","3","6","8","5","4","7","7","5","8","0","9">>,
    <<"-","p","+","5">>, <<"-","p","0","0","7">>, <<"-","-","p","o","r","t","=">>, <<"-","-","p","o","r","t","=","1","2","a">>, <<"-","-","p","o","r","t">>, <<"-","p">>, <<"-","p","-">>,
    <<"-","-","p","o","r","t","=","-","0">>, <<"-","-","p","o","r","t","=","1",".","5">>, <<"-","-","p","o","r","t","="," ","5">>, <<"-">>, <<"+">>, <<"a","b","c">>, <<"4","2">>,
    <<"0","0","0","0","0","0","0","0","0","0","0","0","0","0","0","0","0","0","0","0">>, <<"9","9","9","9","9","9","9","9","9","9","9","9","9","9","9","9","9","9","9","9">> }

InitInt == InitWith({AppTypes}, {NoFiles}, IntVocab, MaxTokens)

SpecInt == InitInt /\ [][NextTok]_vars

\* the text after an optional sign
C17_Unsigned(text) ==
  IF Len(text) > 0 /\ text[1] \in {"+", "-"} THEN Tail(text) ELSE text

C17_Numeral(body) == Len(body) > 0 /\ \A i \in 1..Len(body) : IsDigit(body[i])

\* a numeral without its leading zeros
RECURSIVE C17_Significant(_)
C17_Significant(body) ==
  IF Len(body) > 1 /\ body[1] = "0" THEN C17_Significant(Tail(body)) ELSE body

\* the largest magnitude with the sign of the text: 2^63 - 1, or 2^63 when
\* negative
C17_Limit(text) ==
  IF Len(text) > 0 /\ text[1] = "-"
  THEN <<"9","2","2","3","3","7","2","0","3","6","8","5","4","7","7","5","8","0","8">> ELSE <<"9","2","2","3","3","7","2","0","3","6","8","5","4","7","7","5","8","0","7">>

\* a <= b, for numerals without leading zeros
C17_AtMost(a, b) ==
  \/ Len(a) < Len(b)
  \/ /\ Len(a) = Len(b)
     /\ \/ a = b
        \/ \E i \in 1..Len(a) :
             /\ DigitVal(a[i]) < DigitVal(b[i])
             /\ \A j \in 1..(i - 1) : a[j] = b[j]

\* the text is a base-10 signed integer within the 64-bit signed range
C17_IsInteger(text) ==
  /\ C17_Numeral(C17_Unsigned(text))
  /\ C17_AtMost(C17_Significant(C17_Unsigned(text)), C17_Limit(text))

C17_Digits(sig) == [i \in 1..Len(sig) |-> DigitVal(sig[i])]

\* Integer(n) for the n the text denotes
C17_Integer(text) ==
  VInteger(text[1] = "-" /\ C17_Significant(C17_Unsigned(text)) # <<"0">>,
           C17_Digits(C17_Significant(C17_Unsigned(text))))

\* the raw value text of the occurrence at place k of the token
C17_Raw(tok, k) ==
  IF k = 0 /\ Find(tok, "=") # 0 THEN Drop(tok, Find(tok, "="))
  ELSE IF k > 0 /\ k < Len(tok) THEN Drop(tok, k)
  ELSE tokens[args_iter + 2]

\* this step coerces the text for the n-th argument
C17_Coerced(n, text) ==
  IF C17_IsInteger(text)
  THEN /\ pc' = "tokenize"
       /\ self.args[n].name \in DOMAIN values'
       /\ values'[self.args[n].name] = C17_Integer(text)
  ELSE /\ pc' = "failed"
       /\ result' = Some(Err(InvalidValue(text, "an integer")))

\* the token being processed is the positional for the n-th argument
C17_PositionalFor(n) ==
  /\ self.args[n].positional
  /\ LooksPositional(Tok)
  /\ Cardinality(PosTokens) < NumPos
  /\ PosSpec(Cardinality(PosTokens) + 1) = n

C17_Flag(n, fresh) ==
  (/\ ~self.args[n].positional
   /\ fresh => self.args[n].name \notin DOMAIN values)
  => \A k \in Occurrences(Tok, n) : HasValue(Tok, k) => C17_Coerced(n, C17_Raw(Tok, k))

C17_Step(fresh) ==
  \A n \in 1..Len(self.args) :
    (AtToken /\ ~seen_double_dash /\ self.args[n].arg_type = "Integer")
    => /\ C17_Flag(n, fresh)
       /\ C17_PositionalFor(n) => C17_Coerced(n, Tok)

(***************************************************************************)
(* C17. Strict integer coercion.  As claimed (C17_AnyOccurrence): the raw  *)
(* value text given to an Integer argument is stored as Integer(n) exactly *)
(* when it is a base-10 signed integer within the 64-bit signed range, and *)
(* any other text fails with InvalidValue carrying the text and the        *)
(* expected kind.  The code looks for an earlier value of a flag before it *)
(* coerces the text (C13), so a second --port fails with DuplicateValue    *)
(* whatever its text.                                                      *)
(* As amended (C17_IntegerCoercion): the same, for an Integer positional   *)
(* and for an Integer flag that has no value yet.  A sign of + or -,       *)
(* leading zeros and -0 are accepted; the empty text, a lone sign, blanks, *)
(* a fraction and a magnitude beyond the range are not.                    *)
(***************************************************************************)
C17_AnyOccurrence == [][C17_Step(FALSE)]_vars

C17_IntegerCoercion == [][C17_Step(TRUE)]_vars

\* the least i64 was stored for port, and twenty nines were refused for num
C17_Witness ==
  /\ tokens = << <<"-","-","p","o","r","t","=","-","9","2","2","3","3","7","2","0","3","6","8","5","4","7","7","5","8","0","8">>, <<"9","9","9","9","9","9","9","9","9","9","9","9","9","9","9","9","9","9","9","9">> >>
  /\ pc = "failed"
  /\ args_iter = 1
  /\ values = (N_port :> VInteger(TRUE, I64MinDigits))
  /\ result = Some(Err(InvalidValue(<<"9","9","9","9","9","9","9","9","9","9","9","9","9","9","9","9","9","9","9","9">>, "an integer")))


BoolVocab ==
  { <<"-","-","q","u","i","e","t","=","T","R","U","E">>, <<"-","-","q","u","i","e","t","=","t","R","u","E">>, <<"-","-","q","u","i","e","t","=","Y","e","s">>, <<"-","-","q","u","i","e","t","=","1">>, <<"-","-","q","u","i","e","t","=","m","a","y","b","e">>,
    <<"-","-","q","u","i","e","t","=">>, <<"-","-","q","u","i","e","t","=","o","n">>, <<"-","-","q","u","i","e","t","=","0">>, <<"-","-","q","u","i","e","t","=","f","a","l","s","e">>, <<"-","-","q","u","i","e","t">>,
    <<"-","-","q","u","i","e","t","=","y","e","s","=","1">>, <<"-","-","q","u","i","e","t","="," ","t","r","u","e">>, <<"-","-","q","u","i","e","t","=","1","1">>, <<"-","-","n","o","-","q","u","i","e","t">>, <<"-","q">> }

InitBool == InitWith({AppTypes}, {NoFiles}, BoolVocab, MaxTokens)

SpecBool == InitBool /\ [][NextTok]_vars

\* the same character, or the two cases of one letter
C18_SameLetter(c, d) ==
  c = d \/ \E i \in 1..Len(UpperChars) : {c, d} = {UpperChars[i], LowerChars[i]}

C18_EqualsIgnoringCase(text, word) ==
  Len(text) = Len(word) /\ \A i \in 1..Len(text) : C18_SameLetter(text[i], word[i])

C18_Truthy(text) ==
  \E word \in {<<"t","r","u","e">>, <<"1">>, <<"y","e","s">>} : C18_EqualsIgnoringCase(text, word)

C18_Step ==
  \A n \in 1..Len(self.args) :
    (/\ AtToken /\ ~seen_double_dash /\ IsLong(Tok)
     /\ n \in C8_ByLong(C8_FlagName(Tok), {"Bool"}))
    => /\ pc' = "tokenize"
       /\ values' = Insert(values, self.args[n].name,
                      VBoolean(IF Find(Tok, "=") # 0
                               THEN C18_Truthy(Drop(Tok, Find(Tok, "=")))
                               ELSE TRUE))

(***************************************************************************)
(* C18. Lenient boolean coercion: a long flag of a Boolean argument given  *)
(* with an inline value stores true exactly when the text is true, 1 or    *)
(* yes in any mix of cases, and false for every other text, the empty one  *)
(* included; the step never fails; without an inline value it stores true. *)
(* Each occurrence replaces what an earlier one stored.                    *)
(***************************************************************************)
C18_LenientBoolean == [][C18_Step]_vars

\* --quiet and --quiet=tRuE stored true, then --quiet=on stored false
C18_Witness ==
  /\ tokens = << <<"-","-","q","u","i","e","t">>, <<"-","-","q","u","i","e","t","=","t","R","u","E">>, <<"-","-","q","u","i","e","t","=","o","n">> >>
  /\ pc = "tokenize"
  /\ args_iter = 3
  /\ values = (N_quiet :> VBoolean(FALSE))


(***************************************************************************)
(* Matches::to_table, src/src/lib.rs.  The Table of stoml is modelled as   *)
(* the sequence of its entries: insert replaces the value of a key the     *)
(* table holds and adds the entry of a new key at the end.  to_table walks *)
(* a HashMap, whose iteration order is not specified: `order` is the order *)
(* of one run, any permutation of the keys.                                *)
(***************************************************************************)
Table_contains_key(entries, k) == \E i \in 1..Len(entries) : entries[i].k = k

\* a variant of Table_insert that keeps the value of a key the table holds
Table_insert_keeping(entries, k, v) ==
  IF Table_contains_key(entries, k) THEN entries ELSE Append(entries, Entry(k, v))

Table_insert(entries, k, v) ==
  IF Table_contains_key(entries, k)
  THEN [i \in 1..Len(entries) |-> IF entries[i].k = k THEN Entry(k, v) ELSE entries[i]]
  ELSE Append(entries, Entry(k, v))

\* if !current.contains_key(part) { current.insert(part, Value::Table(Table::new())) }
EnsureTable(entries, part) ==
  IF Table_contains_key(entries, part) THEN entries
  ELSE Table_insert(entries, part, VTable(<<>>))

\* the walk along the parts of a key: the last part is inserted, a part before
\* it is a table to descend into, created when missing; the walk stops at a
\* part that holds something else than a table
RECURSIVE insert_parts(_, _, _)
insert_parts(entries, parts, value) ==
  IF Len(parts) = 1 THEN Table_insert(entries, parts[1], value)
  ELSE IF TableGet(EnsureTable(entries, parts[1]), parts[1]).v.t = "Table"
  THEN Table_insert(EnsureTable(entries, parts[1]), parts[1],
         VTable(insert_parts(TableGet(EnsureTable(entries, parts[1]), parts[1]).v.e,
                             Tail(parts), value)))
  ELSE entries

RECURSIVE to_table_from(_, _, _)
to_table_from(entries, self_values, order) ==
  IF Len(order) = 0 THEN entries
  ELSE to_table_from(insert_parts(entries, SplitDots(Head(order)), self_values[Head(order)]),
                     self_values, Tail(order))

to_table(self_values, order) == VTable(to_table_from(<<>>, self_values, order))

\* the orders a HashMap with these keys may be iterated in
RECURSIVE IterationOrders(_)
IterationOrders(keys) ==
  IF keys = {} THEN {<<>>}
  ELSE UNION {{<<k>> \o o : o \in IterationOrders(keys \ {k})} : k \in keys}

(***************************************************************************)
(* Programs and trees for the flattening of nested tables                  *)
(***************************************************************************)
K_a == <<"a">>

K_b == <<"b">>

K_c == <<"c">>

K_e == <<"e">>

K_a_b == <<"a",".","b">>

\* arguments named like keys of the trees below, a dotted one among them
AppFlat ==
  Args_fold(Args_config_arg_default(Args_new, DefaultConfigPath),
    << Arg_long(Arg_new(N_name), N_name),
       Arg_long(Arg_new(K_a), K_a),
       Arg_long(Arg_new(K_a_b), <<"a","b">>) >>)

\* [a.b] c = 1, and [a] e = true: tables three deep
TreeDeep ==
  VTable(<< Entry(K_a, VTable(<< Entry(K_b, VTable(<< Entry(K_c, IntV(1)) >>)),
                                 Entry(K_e, VBoolean(TRUE)) >>)) >>)

\* "a.b" = 1: one key with a dot in it, at the top
TreeDotted == VTable(<< Entry(K_a_b, IntV(1)) >>)

\* an empty table under a key
TreeEmpty == VTable(<< Entry(K_a, VTable(<<>>)), Entry(N_name, VString(<<"c","f","g">>)) >>)

FlatTrees == {TreeDeep, TreeServer, TreeEmpty, TreeDotted}

FlatVocab == { <<"-","-","n","a","m","e","=","x">>, <<"-","-","a","=","y">>, <<"-","-","a","b","=","z">> }

InitFlat ==
  InitWith({AppFlat}, {NoFiles} \cup {FileWith(t) : t \in FlatTrees}, FlatVocab, MaxTokens)

\* Matches::with_toml on the returned Matches, with one of FlatTrees
WithTomlFlat ==
  /\ pc = "returned"
  /\ Len(ops) < MaxOps
  /\ \E table \in FlatTrees :
       /\ values' = with_toml(values, table)
       /\ ops' = Append(ops, [op |-> "with_toml", table |-> table])
  /\ UNCHANGED <<self, fs, tokens, pc, config_table, remaining, args_iter,
                 positional_index, seen_double_dash, result, log, tokenized, cli_values>>

\* with_toml(&flat.to_table()) on the returned Matches, where flat is a Matches
\* with no values merged with one of FlatTrees
WithTomlOfToTable ==
  /\ pc = "returned"
  /\ Len(ops) < MaxOps
  /\ \E tree \in FlatTrees :
       \E order \in IterationOrders(DOMAIN with_toml(EmptyMap, tree)) :
         /\ values' = with_toml(values, to_table(with_toml(EmptyMap, tree), order))
         /\ ops' = Append(ops, [op |-> "with_toml",
                                table |-> to_table(with_toml(EmptyMap, tree), order),
                                flattened |-> tree])
  /\ UNCHANGED <<self, fs, tokens, pc, config_table, remaining, args_iter,
                 positional_index, seen_double_dash, result, log, tokenized, cli_values>>

NextFlat == LoadConfig \/ ParseStep \/ Finish \/ WithTomlFlat \/ WithTomlOfToTable

SpecFlat == InitFlat /\ [][NextFlat]_vars


\* the paths of keys that lead to something in a tree
RECURSIVE C19_Paths(_)
C19_Paths(value) ==
  IF value.t # "Table" THEN {}
  ELSE UNION {{<<value.e[i].k>>} \cup {<<value.e[i].k>> \o q : q \in C19_Paths(value.e[i].v)} :
                i \in 1..Len(value.e)}

\* the keys of a path joined with dots
RECURSIVE C19_Dotted(_)
C19_Dotted(path) ==
  IF Len(path) = 1 THEN path[1]
  ELSE path[1] \o <<".">> \o C19_Dotted(Tail(path))

\* what the tree holds at the paths that are written as this dotted key
C19_Held(tree, key) ==
  {TreeLookup(tree, q).v : q \in {p \in C19_Paths(tree) : C19_Dotted(p) = key}}

\* `after` is `before` merged with the tree
C19_Merged(before, after, tree) ==
  /\ DOMAIN after = DOMAIN before \cup {C19_Dotted(p) : p \in C19_Paths(tree)}
  /\ \A k \in DOMAIN before : after[k] = before[k]
  /\ \A k \in DOMAIN after \ DOMAIN before : after[k] \in C19_Held(tree, k)

\* the tree this step merges into the mapping, if it merges one
C19_MergedTree ==
  IF pc = "tokenize" /\ pc' = "returned" /\ config_table.some THEN {config_table.v}
  ELSE IF Len(ops') = Len(ops) + 1 /\ ops'[Len(ops')].op = "with_toml"
  THEN {ops'[Len(ops')].table}
  ELSE {}

(***************************************************************************)
(* C19. Flattening keeps both views: a step that merges a config tree into *)
(* the mapping leaves every key the mapping had as it was, and adds, for   *)
(* every path of keys of the tree, at every depth, the dotted key of the   *)
(* path bound to what the tree holds there: the nested table itself under  *)
(* P, and each of its entries k under P.k.  It adds no other key.          *)
(***************************************************************************)
C19_BothViews == [][\A tree \in C19_MergedTree : C19_Merged(values, values', tree)]_vars

\* the loaded tree gave a.b (a table), a.b.c and a.e; a was given as --a=y
C19_Witness ==
  /\ tokens = << <<"-","-","a","=","y">> >>
  /\ fs = FileWith(TreeDeep)
  /\ pc = "returned"
  /\ ops = <<>>
  /\ values = (K_a :> VString(<<"y">>)
               @@ <<"a",".","b">> :> VTable(<< Entry(K_c, IntV(1)) >>)
               @@ <<"a",".","b",".","c">> :> IntV(1)
               @@ <<"a",".","e">> :> VBoolean(TRUE))


\* the same value, whatever the order of the entries of its tables
RECURSIVE C20_SameValue(_, _)
C20_SameValue(a, b) ==
  IF a.t = "Table" /\ b.t = "Table"
  THEN /\ {a.e[i].k : i \in 1..Len(a.e)} = {b.e[i].k : i \in 1..Len(b.e)}
       /\ \A i \in 1..Len(a.e) : C20_SameValue(a.e[i].v, TableGet(b.e, a.e[i].k).v)
  ELSE a = b

\* the same mapping, key for key
C20_SameMapping(m1, m2) ==
  /\ DOMAIN m1 = DOMAIN m2
  /\ \A k \in DOMAIN m1 : C20_SameValue(m1[k], m2[k])

\* the tree this step flattened, turned back into a table and merged
C20_Flattened ==
  IF /\ Len(ops') = Len(ops) + 1
     /\ "flattened" \in DOMAIN ops'[Len(ops')]
  THEN {ops'[Len(ops')].flattened}
  ELSE {}

\* no key of the tree has a dot in it
C20_DotFree(tree) ==
  \A p \in C19_Paths(tree) : \A i \in 1..Len(p) : Find(p[i], ".") = 0

(***************************************************************************)
(* C20. Flatten/unflatten merge equivalence: merging                       *)
(* to_table(flatten(tree)) into a mapping gives, key for key, the mapping  *)
(* that merging the tree itself gives, for every CLI mapping, every tree   *)
(* and every order to_table may walk the flattened mapping in.             *)
(* The code breaks it for a tree with a dot in a key: to_table splits the  *)
(* key "a.b" into a table a with an entry b, and merging that table adds   *)
(* the key a, which merging the tree does not.                             *)
(***************************************************************************)
C20_MergeEquivalence ==
  [][\A tree \in C20_Flattened : C20_SameMapping(values', with_toml(values, tree))]_vars

\* the equivalence for the trees without a dot in a key
C20_DotFreeEquivalence ==
  [][\A tree \in C20_Flattened :
       C20_DotFree(tree) => C20_SameMapping(values', with_toml(values, tree))]_vars


(***************************************************************************)
(* Runs in which the order of a table's entries and of the mapping's keys  *)
(* is left open: merge_toml visits the entries of a table in the order     *)
(* Table::iter yields them, to_table the keys of a HashMap.                *)
(***************************************************************************)
\* a = { b = 2 } and "a.b" = 1: two paths that are written as the same key
TreeClash ==
  VTable(<< Entry(K_a, VTable(<< Entry(K_b, IntV(2)) >>)), Entry(K_a_b, IntV(1)) >>)

TripTrees == {TreeDeep, TreeClash}

InitTrip == InitWith({AppFlat}, {NoFiles, FileWith(TreeDeep)}, FlatVocab, MaxTokens)

\* a tree with the entries of each of its tables in any order
RECURSIVE EntryOrders(_)
RECURSIVE Reorderings(_)
EntryOrders(entries) ==
  IF entries = {} THEN {<<>>}
  ELSE UNION {{<<Entry(e.k, v)>> \o rest :
                 v \in Reorderings(e.v), rest \in EntryOrders(entries \ {e})} :
              e \in entries}

Reorderings(value) ==
  IF value.t # "Table" THEN {value}
  ELSE {VTable(s) : s \in EntryOrders({value.e[i] : i \in 1..Len(value.e)})}

\* Matches::with_toml on the returned Matches, the tables' entries visited in
\* one of their orders
WithTomlInOrder ==
  /\ pc = "returned"
  /\ Len(ops) < MaxOps
  /\ \E tree \in TripTrees :
       \E visited \in Reorderings(tree) :
         /\ values' = with_toml(values, visited)
         /\ ops' = Append(ops, [op |-> "with_toml", table |-> visited, tree |-> tree])
  /\ UNCHANGED <<self, fs, tokens, pc, config_table, remaining, args_iter,
                 positional_index, seen_double_dash, result, log, tokenized, cli_values>>

\* to_table on the returned Matches, and the table it gave merged into a
\* Matches with no values: the mapping is replaced by its round trip
ToTableAndBack ==
  /\ pc = "returned"
  /\ Len(ops) < MaxOps
  /\ \E order \in IterationOrders(DOMAIN values) :
       /\ values' = with_toml(EmptyMap, to_table(values, order))
       /\ ops' = Append(ops, [op |-> "to_table", table |-> to_table(values, order)])
  /\ UNCHANGED <<self, fs, tokens, pc, config_table, remaining, args_iter,
                 positional_index, seen_double_dash, result, log, tokenized, cli_values>>

NextTrip == LoadConfig \/ ParseStep \/ Finish \/ WithTomlInOrder \/ ToTableAndBack

SpecTrip == InitTrip /\ [][NextTrip]_vars

\* this step is ToTableAndBack
C21_RoundTrip == Len(ops') = Len(ops) + 1 /\ ops'[Len(ops')].op = "to_table"

\* k is key followed by a dot and more
C21_Deeper(key, k) == StartsWith(k, key \o <<".">>)

\* no key of the mapping lies deeper than a key that holds no table
C21_NoCollisions(m) ==
  \A key \in DOMAIN m : \A k \in DOMAIN m : C21_Deeper(key, k) => m[key].t = "Table"

(***************************************************************************)
(* C21. Round-trip law: for a mapping with no dotted-key collisions, the   *)
(* mapping that flattening to_table of it gives has the same keys and the  *)
(* same values, dotted keys allowed.                                       *)
(* The code breaks it on the mapping {"a.b": "z"}: to_table makes the      *)
(* table a = { b = "z" }, and flattening inserts the table under a as well *)
(* as the value under a.b.                                                 *)
(***************************************************************************)
C21_RoundTripLaw ==
  [][(C21_RoundTrip /\ C21_NoCollisions(values)) => C20_SameMapping(values', values)]_vars

\* the law for the mappings that hold no dotted key and no table
C21_PlainRoundTrip ==
  [][(/\ C21_RoundTrip
      /\ \A k \in DOMAIN values : Find(k, ".") = 0 /\ values[k].t # "Table")
     => C20_SameMapping(values', values)]_vars


\* the tree this step merged, its entries visited in one of their orders
C26_Visited ==
  IF Len(ops') = Len(ops) + 1 /\ "tree" \in DOMAIN ops'[Len(ops')]
  THEN {ops'[Len(ops')].tree}
  ELSE {}

(***************************************************************************)
(* C26. Merge is independent of table ordering: merging a tree gives the   *)
(* same mapping whatever order the entries of each of its tables are       *)
(* visited in, for every starting mapping and every tree, keys with a dot  *)
(* in them included.                                                       *)
(* The code breaks it on the tree a = { b = 2 }, "a.b" = 1: both paths are *)
(* written a.b, and the one visited first is kept.                         *)
(***************************************************************************)
C26_OrderIndependent ==
  [][\A tree \in C26_Visited : \A other \in Reorderings(tree) :
       C20_SameMapping(values', with_toml(values, other))]_vars

\* the independence for the trees without a dot in a key
C26_DotFreeOrderIndependent ==
  [][\A tree \in C26_Visited : \A other \in Reorderings(tree) :
       C20_DotFree(tree) => C20_SameMapping(values', with_toml(values, other))]_vars

\* the keys that hold something else than a table and have a deeper key
C27_Colliding(m) ==
  {key \in DOMAIN m : m[key].t # "Table" /\ \E k \in DOMAIN m : C21_Deeper(key, k)}

\* the table holds the value of the key and nothing for the deeper keys
C27_Kept(table, m, key) ==
  /\ TreeLookup(table, SplitDots(key)) = Some(m[key])
  /\ \A k \in DOMAIN m : C21_Deeper(key, k) => TreeLookup(table, SplitDots(k)) = None

\* no key of the mapping is the text before one of the dots of the key
C27_Outermost(m, key) == \A q \in DOMAIN m : ~C21_Deeper(q, key)

(***************************************************************************)
(* C27. Reverse-flatten collision.  As claimed (C27_AnyKey): when the      *)
(* mapping holds a value that is no table at key P and a deeper key P.k,   *)
(* the table to_table gives holds that value at P and nothing at P.k,      *)
(* whichever key is processed first.  With P = a.b it fails on the mapping *)
(* {a: "y", a.b: "z", a.b.c: 1}: a.b is itself the deeper key of a, and    *)
(* is dropped.                                                             *)
(* As amended (C27_Collision): the same, for a key P of which no part      *)
(* before a dot is a key of the mapping.  to_table returns a table in      *)
(* every case.                                                             *)
(***************************************************************************)
C27_AnyKey ==
  [][C21_RoundTrip =>
       \A key \in C27_Colliding(values) : C27_Kept(ops'[Len(ops')].table, values, key)]_vars

C27_Collision ==
  [][C21_RoundTrip =>
       \A key \in C27_Colliding(values) :
         C27_Outermost(values, key) => C27_Kept(ops'[Len(ops')].table, values, key)]_vars

\* the mapping held a = "y" and a.b = "z"; the table holds a = "y" alone
C27_Witness ==
  /\ tokens = << <<"-","-","a","=","y">>, <<"-","-","a","b","=","z">> >>
  /\ fs = NoFiles
  /\ cli_values = (K_a :> VString(<<"y">>) @@ K_a_b :> VString(<<"z">>))
  /\ Len(ops) = 1
  /\ ops[1].op = "to_table"
  /\ ops[1].table = VTable(<< Entry(K_a, VString(<<"y">>)) >>)
  /\ values = (K_a :> VString(<<"y">>))


(***************************************************************************)
(* Programs with a version, for the help and version requests              *)
(***************************************************************************)
\* args("myserver").version("1.0") with name and the positional input required
AppInfo ==
  Args_fold(Args_version(Args_new, <<"1",".","0">>),
    << Arg_required(Arg_long(Arg_short(Arg_new(N_name), "n"), N_name)),
       Arg_flag(Arg_long(Arg_short(Arg_new(N_quiet), "q"), N_quiet)),
       Arg_required(Arg_positional(N_input)) >>)

\* the same with disable_help() and a help flag of its own
AppOwnHelp ==
  Args_arg(Args_disable_help(AppInfo),
           Arg_flag(Arg_long(Arg_short(Arg_new(HelpArg.name), "h"), HelpArg.name)))

InfoVocab ==
  { <<"-","h">>, <<"-","-","h","e","l","p">>, <<"-","-","n","o","-","h","e","l","p">>, <<"-","-","h","e","l","p","=","n","o">>, <<"-","V">>, <<"-","-","v","e","r","s","i","o","n">>, <<"-","h","V">>,
    <<"-","-","n","a","m","e","=","x">>, <<"f">>, <<"-","-","b","o","g","u","s">> }

InitInfo == InitWith({AppInfo, AppOwnHelp}, {NoFiles}, InfoVocab, MaxTokens)

SpecInfo == InitInfo /\ [][NextTok]_vars

\* the tokenizer has returned Ok and parse_from goes on from there
C22_Tokenized == pc = "tokenize" /\ args_iter = Len(tokens)

\* the mapping holds true for the flag
C22_IsTrue(name) == name \in DOMAIN values /\ values[name] = VBoolean(TRUE)

C22_Help ==
  (C22_Tokenized /\ self.auto_help /\ C22_IsTrue(HelpArg.name))
  => /\ pc' = "failed"
     /\ result' = Some(Err(HelpRequested))
     /\ is_info_request(result'.v.e)

C22_Version ==
  (/\ C22_Tokenized /\ self.auto_version /\ C22_IsTrue(VersionArg.name)
   /\ ~(self.auto_help /\ C22_IsTrue(HelpArg.name)))
  => /\ pc' = "failed"
     /\ result' = Some(Err(VersionRequested))
     /\ is_info_request(result'.v.e)

C22_Others ==
  (pc = "failed" /\ result.v.e.kind \notin {"Help", "Version"})
  => ~is_info_request(result.v.e)

(***************************************************************************)
(* C22. Help/version outcome: with auto help, once the tokenizer has       *)
(* returned Ok with help true, parse_from returns Help, whether or not     *)
(* required arguments are absent and whether or not version is true too;   *)
(* with version true and help not, it returns Version; both are            *)
(* information requests, and no other error is.                            *)
(***************************************************************************)
C22_HelpVersion == [][C22_Help /\ C22_Version]_vars /\ []C22_Others

\* -V and -h were both given and the required name and input were not: Help
C22_Witness ==
  /\ self.args = WithAutoFlags(AppInfo)
  /\ tokens = << <<"-","V">>, <<"-","h">> >>
  /\ pc = "failed"
  /\ tokenized
  /\ values = (VersionArg.name :> VBoolean(TRUE) @@ HelpArg.name :> VBoolean(TRUE))
  /\ result = Some(Err(HelpRequested))


(***************************************************************************)
(* Runs on the configuration file: the default path c.toml, another path   *)
(* x.toml, each there or not                                               *)
(***************************************************************************)
OtherConfigPath == <<"x",".","t","o","m","l">>

ConfVocab ==
  { <<"-","c">>, <<"c",".","t","o","m","l">>, <<"x",".","t","o","m","l">>, <<"-","-","c","o","n","f","i","g","=","c",".","t","o","m","l">>, <<"-","-","c","o","n","f","i","g","=","x",".","t","o","m","l">>, <<"-","c","x",".","t","o","m","l">>,
    <<"-","-","c","o","n","f","i","g">>, <<"-","v","c">>, <<"-","n","c","f","g">>, <<"-","-","n","a","m","e","=","x">> }

ConfFiles ==
  { NoFiles, FileWith(TreeServer), [p \in {OtherConfigPath} |-> Some(TreeFlat)],
    [p \in {DefaultConfigPath, OtherConfigPath} |-> Some(TreeFlat)] }

InitConf == InitWith({AppServer}, ConfFiles, ConfVocab, MaxTokens)

SpecConf == InitConf /\ [][NextTok]_vars

\* the flag a character of a short cluster is the alias of, for the tokenizer
C23_ShortOf(c) ==
  {n \in 1..Len(WithAutoFlags(self)) :
     ~WithAutoFlags(self)[n].positional /\ WithAutoFlags(self)[n].short = Some(c)}

\* the token is --config, --config=..., or a short cluster in which the
\* tokenizer's scan reaches a `c`
C23_ConfigFlag(tok) ==
  \/ tok = <<"-","-","c","o","n","f","i","g">>
  \/ StartsWith(tok, <<"-","-","c","o","n","f","i","g","=">>)
  \/ /\ IsCluster(tok)
     /\ \E k \in 2..Len(tok) :
          /\ tok[k] = "c"
          /\ \A j \in 2..(k - 1) :
               \E n \in C23_ShortOf(tok[j]) : ~ValueTyped(WithAutoFlags(self)[n])

\* parse_from is about to look for the configuration; the default path is set
\* and no file is there
C23_DefaultAbsent ==
  /\ pc = "start"
  /\ self.default_config.some
  /\ self.default_config.v \notin DOMAIN fs

(***************************************************************************)
(* C23. Absent default config is skipped: with a default path whose file   *)
(* does not exist and no -c/--config among the tokens, parse_from raises   *)
(* no config-related error and goes on with no config tree.                *)
(* The code breaks it on the token -ncfg, which gives name the value cfg:  *)
(* the pre-scan for the config path takes the c in it for the config flag  *)
(* and fg for an explicit path.                                            *)
(***************************************************************************)
C23_AbsentDefaultSkipped ==
  [][(C23_DefaultAbsent /\ \A k \in 1..Len(tokens) : ~C23_ConfigFlag(tokens[k]))
     => pc' = "tokenize" /\ config_table' = None]_vars

\* the same when no token that begins with `-` holds a `c`
C23_NoLetterC ==
  [][(/\ C23_DefaultAbsent
      /\ \A k \in 1..Len(tokens) : StartsWith(tokens[k], <<"-">>) => Find(tokens[k], "c") = 0)
     => pc' = "tokenize" /\ config_table' = None]_vars

\* the paths the first token, or the first two, name as the configuration
C24_Named ==
  IF Len(tokens) >= 1 /\ StartsWith(tokens[1], <<"-","-","c","o","n","f","i","g","=">>)
  THEN {Drop(tokens[1], 9)}
  ELSE IF Len(tokens) >= 1 /\ StartsWith(tokens[1], <<"-","c">>) /\ Len(tokens[1]) > 2
  THEN {Drop(tokens[1], 2)}
  ELSE IF Len(tokens) >= 2 /\ tokens[1] \in {<<"-","c">>, <<"-","-","c","o","n","f","i","g">>}
  THEN {tokens[2]}
  ELSE {}

(***************************************************************************)
(* C24. Explicit missing config is an error: when -c/--config names a path *)
(* whose file does not exist, parse_from fails, for every such path, the   *)
(* default path included.                                                  *)
(* The code breaks it for the default path: load_config_file takes a path  *)
(* equal to the default for the default, and an absent default is skipped. *)
(***************************************************************************)
C24_ExplicitMissing ==
  [][(pc = "start" /\ self.auto_config)
     => \A p \in C24_Named : p \notin DOMAIN fs => pc' = "failed"]_vars

\* the same for the paths that are not the default path: the error is the
\* one of reading the file
C24_OtherThanDefault ==
  [][(pc = "start" /\ self.auto_config)
     => \A p \in C24_Named :
          (p \notin DOMAIN fs /\ self.default_config # Some(p))
          => pc' = "failed" /\ result' = Some(Err(IoError(p)))]_vars


(***************************************************************************)
(* Programs whose definitions share an alias, or put a variadic positional *)
(* before another positional                                               *)
(***************************************************************************)
N_path == <<"p","a","t","h">>

\* port and path both with the short alias p and the long alias port
AppShadow ==
  Args_fold(Args_new,
    << Arg_arg_type(Arg_long(Arg_short(Arg_new(N_port), "p"), N_port), "Integer"),
       Arg_long(Arg_short(Arg_new(N_path), "p"), N_port),
       Arg_flag(Arg_long(Arg_short(Arg_new(N_quiet), "q"), N_quiet)) >>)

\* a flag of the program with the short alias h, which the automatic help
\* flag has too
AppAutoShadow ==
  Args_fold(Args_new,
    << Arg_flag(Arg_long(Arg_short(Arg_new(N_quiet), "h"), N_quiet)),
       Arg_long(Arg_short(Arg_new(N_path), "p"), N_path) >>)

\* a variadic positional before the last positional
AppVariadicFirst ==
  Args_fold(Args_new,
    << Arg_variadic(Arg_positional(N_rest)),
       Arg_positional(N_dst),
       Arg_flag(Arg_long(Arg_short(Arg_new(N_quiet), "q"), N_quiet)) >>)

RegVocab == { <<"-","p","9">>, <<"-","-","p","o","r","t","=","x">>, <<"-","h">>, <<"-","q">>, <<"a">>, <<"b">> }

InitReg ==
  InitWith({AppShadow, AppAutoShadow, AppVariadicFirst, AppPos}, {NoFiles}, RegVocab,
           MaxCliTokens)

SpecReg == InitReg /\ [][NextTok]_vars

\* two definitions that are not positionals share a short or a long alias
C25_SharedAlias(args) ==
  \E i, j \in 1..Len(args) :
    /\ i < j /\ ~args[i].positional /\ ~args[j].positional
    /\ \/ args[i].short.some /\ args[i].short = args[j].short
       \/ args[i].long.some /\ args[i].long = args[j].long

\* a positional that is not the last one is variadic
C25_VariadicNotLast(args) ==
  \E i, j \in 1..Len(args) :
    /\ args[i].positional /\ args[j].positional
    /\ args[i].variadic
    /\ PositionKey(args[i]) < PositionKey(args[j])

(***************************************************************************)
(* C25. Registry construction rejects ill-formed specs: the tokenizer is   *)
(* never built, and so never runs or returns, for definitions (the         *)
(* automatic flags among them) that share an alias or have a variadic      *)
(* positional before the last one.                                         *)
(* The code breaks it: ArgParser::new checks nothing; of two definitions   *)
(* with one alias the index keeps the later, and a variadic positional     *)
(* before the last one takes one value only.                               *)
(***************************************************************************)
C25_RejectsIllFormed ==
  pc \in {"tokenize", "returned"}
    => ~C25_SharedAlias(self.args) /\ ~C25_VariadicNotLast(self.args)


RepVocab == { <<"-","q">>, <<"-","q","q">>, <<"-","q","q","q">>, <<"-","-","q","u","i","e","t">>, <<"-","q","v","q">>, <<"-","v">> }

InitRep == InitWith({AppTypes}, {NoFiles}, RepVocab, MaxCliTokens)

SpecRep == InitRep /\ [][NextTok]_vars

\* the token is the Boolean flag quiet in positive form, once or several
\* times: --quiet, or a short cluster of q alone
C28_Positive(tok) ==
  \/ tok = <<"-","-","q","u","i","e","t">>
  \/ IsCluster(tok) /\ \A k \in 2..Len(tok) : tok[k] = "q"

C28_Step ==
  (AtToken /\ C28_Positive(Tok))
  => pc' = "tokenize" /\ values' = Insert(values, N_quiet, VBoolean(TRUE))

\* after one or more tokens, all of them positive forms of quiet, the mapping
\* is what one occurrence gives
C28_Same ==
  (/\ pc # "start" /\ args_iter >= 1
   /\ \A k \in 1..args_iter : C28_Positive(tokens[k]))
  => pc # "failed" /\ values = (N_quiet :> VBoolean(TRUE))

(***************************************************************************)
(* C28. Boolean repetition is idempotent: a Boolean flag repeated in       *)
(* positive form, in short clusters or in long form, any number of times,  *)
(* gives true and no error, the mapping a single occurrence gives.         *)
(***************************************************************************)
C28_Idempotent == [][C28_Step]_vars /\ []C28_Same

\* quiet was given five times, in a cluster, in long form and alone
C28_Witness ==
  /\ tokens = << <<"-","q","q","q">>, <<"-","-","q","u","i","e","t">>, <<"-","q">> >>
  /\ pc = "returned"
  /\ values = (N_quiet :> VBoolean(TRUE))
  /\ result = Some(Ok("matches"))


\* the program of AppInfo with an Integer flag port
AppAbort ==
  Args_arg(AppInfo, Arg_arg_type(Arg_long(Arg_short(Arg_new(N_port), "p"), N_port), "Integer"))

AbortVocab == { <<"-","h">>, <<"-","V">>, <<"-","-","b","o","g","u","s">>, <<"-","-","n","a","m","e">>, <<"-","-","n","a","m","e","=","x">>, <<"f">>, <<"-","p","x">> }

InitAbort == InitWith({AppAbort}, {NoFiles}, AbortVocab, MaxCliTokens)

SpecAbort == InitAbort /\ [][NextTok]_vars

\* the tokenizer's loop as a whole, from the state st on
RECURSIVE C29_Run(_, _, _)
C29_Continue(args, toks, r) == IF r.ok THEN C29_Run(args, toks, r.v) ELSE r

C29_Run(args, toks, st) ==
  IF st.it >= Len(toks) THEN Ok(st) ELSE C29_Continue(args, toks, parse_token(args, toks, st))

C29_Start ==
  [m |-> Matches_new, it |-> 0, positional_index |-> 0, seen_double_dash |-> FALSE]

C29_TokenizerErrors ==
  {"UnknownFlag", "MissingValue", "InvalidValue", "DuplicateValue", "TooManyPositional"}

C29_AfterTokenizer == {"Help", "Version", "MissingRequired", "MissingPositional"}

\* the tokenizer returned an error
C29_Aborted == pc = "failed" /\ ~tokenized /\ result.v.e.kind \in C29_TokenizerErrors

\* the tokens before the offending one were processed without error, and the
\* mapping is what they gave
C29_NoLaterEffect ==
  C29_Aborted =>
    /\ C29_Run(self.args, SubSeq(tokens, 1, args_iter), C29_Start).ok
    /\ C29_Run(self.args, SubSeq(tokens, 1, args_iter), C29_Start).v.m.values = values
    /\ C29_Run(self.args, SubSeq(tokens, 1, args_iter), C29_Start).v.m.remaining = remaining

\* whatever follows the offending token and the token after it, the error is
\* the same
C29_NotMasked ==
  (C29_Aborted /\ args_iter + 2 <= Len(tokens)) =>
    \A rest \in BoundedSeq(AbortVocab, 1) :
      Some(C29_Run(self.args, SubSeq(tokens, 1, args_iter + 2) \o rest, C29_Start)) = result

\* Help, Version and the missing arguments are reported only for a token list
\* that has no offending token
C29_Preferred ==
  (pc \in {"failed", "returned"} /\ self.args = WithAutoFlags(AppAbort)) =>
    IF C29_Run(self.args, tokens, C29_Start).ok
    THEN tokenized /\ (pc = "failed" => result.v.e.kind \in C29_AfterTokenizer)
    ELSE ~tokenized /\ result = Some(C29_Run(self.args, tokens, C29_Start))

\* the k-th token is the value the flag --name before it takes
RECURSIVE C29_TakenAsValue(_)
C29_TakenAsValue(k) ==
  k > 1 /\ tokens[k - 1] = <<"-","-","n","a","m","e">> /\ ~C29_TakenAsValue(k - 1)

\* an unknown flag that is no flag's value ends the run there or earlier, with
\* a tokenizer's error, whatever else the command line holds
C29_UnknownEnds ==
  \A k \in 1..Len(tokens) :
    (tokens[k] = <<"-","-","b","o","g","u","s">> /\ ~C29_TakenAsValue(k) /\ pc \in {"failed", "returned"})
    => /\ C29_Aborted
       /\ args_iter < k
       /\ args_iter = k - 1 => result = Some(Err(UnknownFlag(<<"-","-","b","o","g","u","s">>)))

(***************************************************************************)
(* C29. Abort on the first error in token order: the tokenizer's error is  *)
(* the one of the earliest offending token, it does not depend on the      *)
(* tokens after it, the mapping shows no effect of them, and it is         *)
(* returned whenever a token offends: Help, Version, MissingRequired and   *)
(* MissingPositional are returned only when every token was tokenized.     *)
(***************************************************************************)
C29_FirstError ==
  [](C29_NoLaterEffect /\ C29_NotMasked /\ C29_Preferred /\ C29_UnknownEnds)

\* -h was given, then an unknown flag, then a bad port and no name: the
\* unknown flag is the error, and help is in the mapping
C29_Witness ==
  /\ tokens = << <<"-","h">>, <<"-","-","b","o","g","u","s">>, <<"-","p","x">>, <<"-","V">> >>
  /\ pc = "failed"
  /\ args_iter = 1
  /\ values = (HelpArg.name :> VBoolean(TRUE))
  /\ result = Some(Err(UnknownFlag(<<"-","-","b","o","g","u","s">>)))


\* parse_from reports the n-th argument as missing
C30_ReportedMissing(n) ==
  /\ pc' = "failed"
  /\ result'.v.e.kind \in {"MissingRequired", "MissingPositional"}
  /\ result'.v.e.name = self.args[n].name

\* the n-th argument is required, the CLI gave it no value, and the loaded
\* configuration holds a value at the path it is to be looked up at
C30_InConfig(n, path) ==
  /\ C22_Tokenized
  /\ config_table.some
  /\ self.args[n].required
  /\ self.args[n].name \notin DOMAIN values
  /\ TreeLookup(config_table.v, path).some

(***************************************************************************)
(* C30. Required argument satisfied by config: a required argument the    *)
(* CLI gave no value, for which the loaded configuration holds a value at  *)
(* its config key path (toml_key, or its name when toml_key is unset), is  *)
(* not reported missing.                                                   *)
(* The code breaks it for an argument with a toml_key: toml_key is never   *)
(* read, the value is merged under the tree's own key server.port, and     *)
(* the check looks for the name port.                                      *)
(***************************************************************************)
C30_RequiredFromConfig ==
  [][\A n \in 1..Len(self.args) :
       C30_InConfig(n, ConfigPath(self.args[n])) => ~C30_ReportedMissing(n)]_vars

\* the same when the value is looked for under the argument's name
C30_RequiredByName ==
  [][\A n \in 1..Len(self.args) :
       C30_InConfig(n, <<self.args[n].name>>) => ~C30_ReportedMissing(n)]_vars



(***************************************************************************)
(* The tokenizer on a Boolean flag given in every form                     *)
(***************************************************************************)
LastVocab == { <<"-","-","q","u","i","e","t">>, <<"-","-","q","u","i","e","t","=","n","o">>, <<"-","-","q","u","i","e","t","=","Y","E","S">>, <<"-","q">>, <<"-","-","n","o","-","q","u","i","e","t">>, <<"-","q","n">>, <<"-","-">> }

InitLast == InitWith({AppServer}, {NoFiles}, LastVocab, MaxCliTokens)

SpecLast == InitLast /\ [][NextTok]_vars

\* the token is --no-X for a Boolean long alias X
C31_IsNegation(tok) ==
  StartsWith(tok, <<"-","-","n","o","-">>) /\ C8_ByLong(Drop(tok, 5), {"Bool"}) # {}

\* the token is the negation of the n-th argument
C31_Negates(tok, n) ==
  StartsWith(tok, <<"-","-","n","o","-">>) /\ n \in C8_ByLong(Drop(tok, 5), {"Bool"})

\* the token is the n-th argument in long form, with or without =text
C31_Long(tok, n) ==
  IsLong(tok) /\ ~C31_IsNegation(tok) /\ self.args[n].long = Some(C8_FlagName(tok))

\* the token is a short cluster that holds the n-th argument's short alias
C31_Short(tok, n) ==
  \E k \in 2..Len(tok) : IsCluster(tok) /\ n \in ByShort(tok[k]) /\ ScanReaches(tok, k)

C31_Occurs(tok, n) == C31_Negates(tok, n) \/ C31_Long(tok, n) \/ C31_Short(tok, n)

\* what an occurrence sets: false for --no-X, the inline text's reading for
\* --X=text, true for --X and for the short alias
C31_Sets(tok, n) ==
  IF C31_Negates(tok, n) THEN FALSE
  ELSE IF C31_Long(tok, n) THEN C8_InlineBool(tok)
  ELSE TRUE

\* the d-th token was processed in Normal state as a token of its own
C31_Normal(d) ==
  /\ ~ConsumedAsValue(d)
  /\ C7_Terminator = 0 \/ d < C7_Terminator

\* the processed tokens that are occurrences of the n-th argument
C31_Given(n) ==
  {d \in 1..args_iter : C31_Normal(d) /\ C31_Occurs(tokens[d], n)}

C31_Last(n) == CHOOSE d \in C31_Given(n) : \A e \in C31_Given(n) : e <= d

C31_Booleans ==
  {n \in 1..Len(self.args) : self.args[n].arg_type = "Bool" /\ ~self.args[n].positional}

\* a Boolean flag holds what its last occurrence set, and nothing when it
\* has not occurred
C31_LastSet ==
  pc # "start" =>
    \A n \in C31_Booleans :
      IF C31_Given(n) = {}
      THEN self.args[n].name \notin DOMAIN TokValues
      ELSE /\ self.args[n].name \in DOMAIN TokValues
           /\ TokValues[self.args[n].name] = VBoolean(C31_Sets(tokens[C31_Last(n)], n))

\* an occurrence of a Boolean flag that already has a value does not fail,
\* and DuplicateValue never names a Boolean flag
C31_NoDuplicate ==
  /\ (pc = "failed" /\ ~tokenized /\ result.v.e.kind \in C29_TokenizerErrors)
       => \A n \in C31_Booleans :
            /\ ~C31_Negates(Tok, n)
            /\ ~C31_Long(Tok, n)
            /\ Tok # <<"-">> \o (IF self.args[n].short.some THEN <<self.args[n].short.v>> ELSE <<>>)
  /\ (pc = "failed" /\ result.v.e.kind = "DuplicateValue")
       => \A n \in C31_Booleans : result.v.e.name # self.args[n].name

(***************************************************************************)
(* C31. Last Boolean occurrence wins: a Boolean argument X given several   *)
(* times in Normal state, in any mix of --X, --X=text, its short alias and *)
(* --no-X, holds after tokenization the value its last occurrence set, and *)
(* no DuplicateValue is raised for it.                                     *)
(***************************************************************************)
C31_LastOccurrenceWins == [](C31_LastSet /\ C31_NoDuplicate)

\* quiet in short form, as --quiet=no, as --quiet and negated last
C31_Witness ==
  /\ tokens = << <<"-","q">>, <<"-","-","q","u","i","e","t","=","n","o">>, <<"-","-","q","u","i","e","t">>, <<"-","-","n","o","-","q","u","i","e","t">> >>
  /\ pc = "returned"
  /\ cli_values = (N_quiet :> VBoolean(FALSE))
  /\ result = Some(Ok("matches"))



(***************************************************************************)
(* The tokenizer on value-taking flags followed by tokens of every shape   *)
(***************************************************************************)
TakeVocab == { <<"-","-","n","a","m","e">>, <<"-","q","n">>, <<"-","-","p","o","r","t">>, <<"-","-","t","a","g">>, <<"-","-">>, <<"-","-","b","o","g","u","s">>, <<"-","5">>, <<"7">> }

InitTake == InitWith({AppTypes}, {NoFiles}, TakeVocab, MaxCliTokens)

SpecTake == InitTake /\ [][NextTok]_vars

\* the value-taking arguments the token names without an inline value: in
\* long form without `=`, or as the last character of a short cluster
C32_Takers(tok) ==
  {n \in 1..Len(self.args) :
     /\ ValueTyped(self.args[n]) /\ ~self.args[n].positional
     /\ \/ IsLong(tok) /\ Find(tok, "=") = 0 /\ self.args[n].long = Some(Drop(tok, 2))
        \/ IsCluster(tok) /\ n \in ByShort(tok[Len(tok)]) /\ ScanReaches(tok, Len(tok))}

\* the Boolean and Count arguments a short cluster names before its last
\* character
C32_Before(tok) ==
  {self.args[n].name : n \in {j \in 1..Len(self.args) :
     \E k \in 2..(Len(tok) - 1) : IsCluster(tok) /\ j \in ByShort(tok[k])}}

\* the mapping holds the text as the n-th argument's value: as it is for a
\* String, as the last element for an Array, as the integer it spells
C32_Holds(m, n, text) ==
  /\ self.args[n].name \in DOMAIN m
  /\ CASE self.args[n].arg_type = "Array" ->
             /\ m[self.args[n].name].t = "Array"
             /\ Len(m[self.args[n].name].a) > 0
             /\ m[self.args[n].name].a[Len(m[self.args[n].name].a)] = VString(text)
        [] self.args[n].arg_type = "String" -> m[self.args[n].name] = VString(text)
        [] OTHER -> Ok(m[self.args[n].name]) = parse_value_as_type(text, self.args[n].arg_type)

\* the step fails only for the value: its text is no value of the flag's
\* type, or the flag has a value already
C32_Refused(n, text) ==
  /\ pc' = "failed"
  /\ \/ result' = Some(Err(DuplicateValue(self.args[n].name)))
     \/ /\ result'.v.e.kind = "InvalidValue"
        /\ result'.v.e.value = text
        /\ self.args[n].arg_type \notin {"String", "Array"}

\* the step uses the next token as the flag's value and as nothing else
C32_Taken(n, d) ==
  /\ pc' = "tokenize"
  /\ args_iter' = d
  /\ ~seen_double_dash'
  /\ remaining' = remaining
  /\ positional_index' = positional_index
  /\ C32_Holds(values', n, tokens[d])
  /\ \A i \in 1..Len(log') : log'[i].tok # d
  /\ \A k \in DOMAIN values' \ ({self.args[n].name} \cup C32_Before(tokens[d - 1])) :
       k \in DOMAIN values /\ values'[k] = values[k]

C32_Step ==
  (AtToken /\ ~seen_double_dash /\ args_iter + 1 < Len(tokens)) =>
    \A n \in C32_Takers(Tok) :
      C32_Taken(n, args_iter + 2) \/ C32_Refused(n, tokens[args_iter + 2])

(***************************************************************************)
(* C32. A value-taking flag without an inline value consumes the next      *)
(* token verbatim whatever its shape: a `--` does not start the            *)
(* pass-through, a token that begins with `-` is neither looked up as a    *)
(* flag nor counted as a positional; the token is the flag's value only.   *)
(***************************************************************************)
C32_NextTokenVerbatim == [][C32_Step]_vars

\* --name took `--` and --tag took the unknown flag --bogus
C32_Witness ==
  /\ tokens = << <<"-","-","n","a","m","e">>, <<"-","-">>, <<"-","-","t","a","g">>, <<"-","-","b","o","g","u","s">> >>
  /\ pc = "returned"
  /\ ~seen_double_dash
  /\ remaining = <<>>
  /\ positional_index = 0
  /\ values = (N_name :> VString(<<"-","-">>)) @@ (N_tag :> VArray(<< VString(<<"-","-","b","o","g","u","s">>) >>))



(***************************************************************************)
(* The pre-scan for the config path next to the tokenizer                  *)
(***************************************************************************)
ScanVocab == { <<"-","c">>, <<"x",".","t","o","m","l">>, <<"-","-">>, <<"-","-","n","a","m","e">>, <<"-","n","c","x",".","t","o","m","l">>, <<"-","-","c","o","n","f","i","g","=","x",".","t","o","m","l">>, <<"-","v","c">>, <<"-","-","c","o","n","f","i","g">> }

InitScan == InitWith({AppServer}, ConfFiles, ScanVocab, MaxTokens)

SpecScan == InitScan /\ [][NextTok]_vars

\* the path the pre-scan selects
C33_Selected == extract_config_path(self, tokens)

\* the path the tokenizer recorded for the argument config, the default path
\* when it recorded none
C33_Recorded ==
  IF ConfigArg.name \in DOMAIN cli_values
  THEN Some(cli_values[ConfigArg.name].s)
  ELSE self.default_config

\* the token looks like the config flag to the pre-scan
C33_Looks(tok) ==
  \/ tok = <<"-","-","c","o","n","f","i","g">>
  \/ StartsWith(tok, <<"-","-","c","o","n","f","i","g","=">>)
  \/ IsCluster(tok) /\ Find(tok, "c") > 0

\* the tokenizer dispatched the d-th token to the argument config
C33_Dispatched(d) ==
  \E i \in 1..Len(log) :
    /\ log[i].tok = d
    /\ log[i].form \in {"short", "long"}
    /\ self.args[log[i].arg].name = ConfigArg.name

\* the tokens that look like the config flag are the ones the tokenizer
\* dispatched to it
C33_SameTokens ==
  \A d \in 1..Len(tokens) : C33_Looks(tokens[d]) <=> C33_Dispatched(d)

(***************************************************************************)
(* C33. The config pre-scan agrees with the tokenizer: for every token     *)
(* list the tokenizer accepts, the path extract_config_path selects is the *)
(* value the tokenizer records for config, or the default path when it     *)
(* records none; tokens after `--`, tokens consumed as another flag's      *)
(* value and characters of another short flag's inline value select no     *)
(* config file.                                                            *)
(* The code breaks it: the pre-scan looks at the text of each token alone  *)
(* and takes the first that is --config, --config=.., or begins with one   *)
(* `-` and holds a c, wherever it stands.                                  *)
(***************************************************************************)
C33_PreScanAgrees == tokenized => C33_Selected = C33_Recorded

\* the two agree when the tokens the pre-scan takes for the config flag are
\* the tokens the tokenizer takes for it
C33_AgreesOnConfigFlags == (tokenized /\ C33_SameTokens) => C33_Selected = C33_Recorded



\* to_table gives the tree `first` for every order the keys are visited in
C34_SameForAll(m, first) ==
  \A order \in IterationOrders(DOMAIN m) : C20_SameValue(to_table(m, order), first)

\* no key of the mapping is another key followed by a dot and more
C34_PrefixFree(m) == \A key \in DOMAIN m : \A k \in DOMAIN m : ~C21_Deeper(key, k)

(***************************************************************************)
(* C34. to_table is deterministic: for every mapping, one that holds a     *)
(* table under the key P and another value under the dotted key P.k        *)
(* included, the tree is the same for every order in which the entries of  *)
(* the mapping are visited.                                                *)
(* The code breaks it for such a mapping: the key P replaces the table     *)
(* the walk for P.k built under P when it comes second, and the walk for   *)
(* P.k replaces the entry k of P's table when it comes second.             *)
(***************************************************************************)
C34_Deterministic ==
  pc = "returned" =>
    C34_SameForAll(values, to_table(values, CHOOSE order \in IterationOrders(DOMAIN values) : TRUE))

\* the tree is the same for every order when no key lies deeper than another
C34_PrefixFreeDeterministic ==
  (pc = "returned" /\ C34_PrefixFree(values)) =>
    C34_SameForAll(values, to_table(values, CHOOSE order \in IterationOrders(DOMAIN values) : TRUE))



(***************************************************************************)
(* Merge steps with trees that define the same keys                        *)
(***************************************************************************)
\* port = 1, name = "alt", quiet = false, and [server] port = 1: keys of
\* TreeServer and of TreeFlat with other values
TreeAlt ==
  VTable(<< Entry(N_port, IntV(1)),
            Entry(N_name, VString(<<"a","l","t">>)),
            Entry(N_quiet, VBoolean(FALSE)),
            Entry(N_server, VTable(<< Entry(N_port, IntV(1)) >>)) >>)

MergeTrees == {TreeServer, TreeFlat, TreeAlt}

AgainVocab == { <<"-","-","p","o","r","t","=","9">>, <<"-","-","n","a","m","e","=","x">>, <<"-","v">> }

InitAgain ==
  InitWith({AppServer}, {NoFiles} \cup {FileWith(t) : t \in MergeTrees}, AgainVocab, MaxTokens)

\* Matches::with_toml on the returned Matches, with one of MergeTrees
WithTomlAmong ==
  /\ pc = "returned"
  /\ Len(ops) < MaxOps
  /\ \E table \in MergeTrees :
       /\ values' = with_toml(values, table)
       /\ ops' = Append(ops, [op |-> "with_toml", table |-> table])
  /\ UNCHANGED <<self, fs, tokens, pc, config_table, remaining, args_iter,
                 positional_index, seen_double_dash, result, log, tokenized, cli_values>>

NextAgain == LoadConfig \/ ParseStep \/ Finish \/ WithTomlAmong \/ WithDefaults

SpecAgain == InitAgain /\ [][NextAgain]_vars

\* the tree of the i-th merge: of parse_from's own for i = 0, of the i-th
\* step applied to the returned Matches otherwise
C35_TreeAt(i) ==
  IF i = 0 THEN config_table
  ELSE IF ops[i].op = "with_toml" THEN Some(ops[i].table)
  ELSE None

\* the i-th merge is of a tree that holds a value at the key's path
C35_Defines(i, k) ==
  C35_TreeAt(i).some /\ TreeLookup(C35_TreeAt(i).v, SplitDots(k)).some

\* this step applies again the step applied last, or merges again the tree
\* parse_from merged
C35_Again ==
  /\ pc = "returned"
  /\ \/ Len(ops) >= 1 /\ ops' = Append(ops, ops[Len(ops)])
     \/ config_table.some
          /\ ops' = Append(ops, [op |-> "with_toml", table |-> config_table.v])

C35_AgainStep == C35_Again => values' = values

\* applying a step twice to the mapping gives what applying it once gives
C35_Idempotent ==
  pc = "returned" =>
    /\ \A t \in MergeTrees : with_toml(with_toml(values, t), t) = with_toml(values, t)
    /\ \A d \in DefaultLists :
         with_defaults(with_defaults(values, d), d) = with_defaults(values, d)

\* a key two merged trees define, which neither the command line nor an
\* earlier step gave a value, holds the value of the tree merged first
C35_FirstTree ==
  pc = "returned" =>
    \A k \in DOMAIN values : \A i \in 0..Len(ops) : \A j \in (i + 1)..Len(ops) :
      (/\ C35_Defines(i, k) /\ C35_Defines(j, k)
       /\ k \notin DOMAIN cli_values
       /\ \A h \in 0..(i - 1) : ~C35_Defines(h, k)
       /\ \A h \in 1..(i - 1) : ~DefaultHolds(h, k))
      => values[k] = TreeLookup(C35_TreeAt(i).v, SplitDots(k)).v

\* a merge step changes the value of no key the mapping holds
C35_KeepStep ==
  pc = "returned" => \A k \in DOMAIN values : k \in DOMAIN values' /\ values'[k] = values[k]

(***************************************************************************)
(* C35. Merge steps are idempotent and first-writer-wins: with_toml with   *)
(* the same tree twice, or with_defaults with the same definitions twice,  *)
(* gives the mapping that applying it once gives; and of two trees merged  *)
(* one after the other, every key both define keeps the value of the tree  *)
(* merged first.                                                           *)
(***************************************************************************)
C35_MergeAgain ==
  [][C35_AgainStep /\ C35_KeepStep]_vars /\ [](C35_Idempotent /\ C35_FirstTree)

\* TreeServer was merged and then TreeAlt: name, quiet and server.port are
\* those of TreeServer, port is that of TreeAlt
C35_Witness ==
  /\ pc = "returned"
  /\ tokens = <<>>
  /\ config_table = None
  /\ ops = << [op |-> "with_toml", table |-> TreeServer], [op |-> "with_toml", table |-> TreeAlt] >>
  /\ values[N_name] = VString(<<"c","f","g">>)
  /\ values[N_quiet] = VBoolean(TRUE)
  /\ values[K_server_port] = IntV(9090)
  /\ values[N_port] = IntV(1)

====
